---- MODULE Spec2Model ----
(***************************************************************************)
(* Model of the single-SKU palletizer of lib/calculation-worker.ts and of  *)
(* its asynchronous entry point calculateMultiPalletLayout.                *)
(*                                                                         *)
(* Numbers.  Every length of the model is an integer number of units of    *)
(* EPS = 1e-6 (the tolerance of the source), so that the source's          *)
(* "+ EPS" and "- EPS" are exact.  Cell and placement coordinates are kept *)
(* in HALF units (the stored value is twice the source's value), so that   *)
(* the source's divisions by two stay exact.  Arithmetic is the exact      *)
(* arithmetic of the source's formulas; floating-point rounding is not     *)
(* modelled.                                                               *)
(***************************************************************************)
EXTENDS Integers, Sequences, FiniteSets, TLC

VARIABLES
  script,    \* the calls the caller has still to make: a sequence of argument records
  promises,  \* one record per call of calculateMultiPalletLayout, in call order
  timers,    \* the event loop's queue of setTimeout(.., 0) callbacks (promise indices)
  page,      \* the state of the calculator page component (noPage when there is none)
  autoTimers \* the page's pending setTimeout(.., 300) callbacks: records [id, args]

vars == <<script, promises, timers, page, autoTimers>>

(***************************************************************************)
(* JavaScript values                                                       *)
(***************************************************************************)
EPS == 1

\* Number.POSITIVE_INFINITY, a value of type number greater than every finite one
Infinity == 2147483647
\* NaN: every comparison with it is false
NaN == -2147483647

null == [null |-> TRUE]
undefined == "undefined"

Min(a, b) == IF a <= b THEN a ELSE b
Max(a, b) == IF a >= b THEN a ELSE b

\* a > b and a < b of two numbers, one of which may be NaN
Gt(a, b) == a # NaN /\ b # NaN /\ a > b
Lt(a, b) == a # NaN /\ b # NaN /\ a < b

\* s + q where either may be Infinity
Plus(s, q) == IF s = Infinity \/ q = Infinity THEN Infinity ELSE s + q

\* total % K for K finite and positive
Rem(total, K) == IF total = Infinity THEN NaN ELSE total % K

Neg(x) == IF x = NaN THEN NaN ELSE -x

\* s[1] + ... + s[n]
RECURSIVE SumTo(_, _)
SumTo(s, n) == IF n = 0 THEN 0 ELSE SumTo(s, n - 1) + s[n]

SumSeq(s) == SumTo(s, Len(s))

(***************************************************************************)
(* Pattern builders                                                        *)
(***************************************************************************)
Footprint(len, wid, rot) == [len |-> len, wid |-> wid, rot |-> rot]

LayerBlock(cols, rows, fp) == [cols |-> cols, rows |-> rows, fp |-> fp]

\* variant: the capacity is cols + rows
buildGridPatternSum(width, depth, fp) ==
  LET cols == width \div fp.len
      rows == depth \div fp.wid
  IN [kind |-> "grid",
      blocks |-> <<LayerBlock(cols, rows, fp)>>,
      usedWidth |-> cols * fp.len,
      usedDepth |-> rows * fp.wid,
      perLayer |-> Max(0, cols) + Max(0, rows),
      maxCols |-> cols, maxRows |-> rows]

buildGridPattern(width, depth, fp) ==
  LET cols == width \div fp.len
      rows == depth \div fp.wid
  IN [kind |-> "grid",
      blocks |-> <<LayerBlock(cols, rows, fp)>>,
      usedWidth |-> cols * fp.len,
      usedDepth |-> rows * fp.wid,
      perLayer |-> Max(0, cols) * Max(0, rows),
      maxCols |-> cols, maxRows |-> rows]

buildSplitXPatterns(width, depth, left, right) ==
  LET maxLeftCols == width \div left.len
  IN [cLeft \in 1..maxLeftCols |->
        LET remainingW == width - cLeft * left.len
            cRight == remainingW \div right.len
            rowsLeft == depth \div left.wid
            rowsRight == depth \div right.wid
        IN [kind |-> "split-x",
            blocks |-> <<LayerBlock(cLeft, rowsLeft, left),
                         LayerBlock(cRight, rowsRight, right)>>,
            usedWidth |-> cLeft * left.len + cRight * right.len,
            usedDepth |-> Max(rowsLeft * left.wid, rowsRight * right.wid),
            perLayer |-> cLeft * rowsLeft + cRight * rowsRight,
            maxCols |-> Max(cLeft, cRight), maxRows |-> Max(rowsLeft, rowsRight)]]

buildSplitZPatterns(width, depth, front, back) ==
  LET maxFrontRows == depth \div front.wid
  IN [rFront \in 1..maxFrontRows |->
        LET remainingD == depth - rFront * front.wid
            rBack == remainingD \div back.wid
            colsFront == width \div front.len
            colsBack == width \div back.len
        IN [kind |-> "split-z",
            blocks |-> <<LayerBlock(colsFront, rFront, front),
                         LayerBlock(colsBack, rBack, back)>>,
            usedWidth |-> Max(colsFront * front.len, colsBack * back.len),
            usedDepth |-> rFront * front.wid + rBack * back.wid,
            perLayer |-> rFront * colsFront + rBack * colsBack,
            maxCols |-> Max(colsFront, colsBack), maxRows |-> Max(rFront, rBack)]]

(***************************************************************************)
(* Pattern search                                                          *)
(***************************************************************************)
candidatePatterns(width, depth, a, b) ==
  <<buildGridPattern(width, depth, a), buildGridPattern(width, depth, b)>>
    \o buildSplitXPatterns(width, depth, a, b)
    \o buildSplitXPatterns(width, depth, b, a)
    \o buildSplitZPatterns(width, depth, a, b)
    \o buildSplitZPatterns(width, depth, b, a)

\* variant: the fit filter without tolerance and with strict comparisons
fitsDeckStrict(c, width, depth) ==
  c.perLayer > 0 /\ c.usedWidth < width /\ c.usedDepth < depth

fitsDeck(c, width, depth) ==
  c.perLayer > 0 /\ c.usedWidth - EPS <= width /\ c.usedDepth - EPS <= depth

\* variant: the divisibility of the total quantity is compared first
scoreTupleDivisibleFirst(c, totalQty) ==
  LET usedArea == c.usedWidth * c.usedDepth
      d == c.usedWidth - c.usedDepth
      squareness == -(IF d < 0 THEN -d ELSE d)
      simplicity == -(Len(c.blocks) - 1)
      divisible == IF Rem(totalQty, c.perLayer) = 0 THEN 1 ELSE 0
      remainder == Rem(totalQty, c.perLayer)
  IN <<divisible, c.perLayer, usedArea, squareness, simplicity, Neg(remainder)>>

scoreTuple(c, totalQty) ==
  LET usedArea == c.usedWidth * c.usedDepth
      d == c.usedWidth - c.usedDepth
      squareness == -(IF d < 0 THEN -d ELSE d)
      simplicity == -(Len(c.blocks) - 1)
      divisible == IF Rem(totalQty, c.perLayer) = 0 THEN 1 ELSE 0
      remainder == Rem(totalQty, c.perLayer)
  IN <<c.perLayer, usedArea, squareness, simplicity, divisible, Neg(remainder)>>

\* the lexicographic comparison of the inner loop: the first position where the
\* keys differ decides
\* variant: only the capacity is compared
isBetterCapacityOnly(key, bestKey) == Gt(key[1], bestKey[1])

isBetter(key, bestKey) ==
  LET differ == {k \in 1..Len(bestKey) : Gt(key[k], bestKey[k]) \/ Lt(key[k], bestKey[k])}
  IN differ # {} /\
     LET k == CHOOSE m \in differ : \A n \in differ : m <= n
     IN Gt(key[k], bestKey[k])

RECURSIVE scanViable(_, _, _, _)
scanViable(viable, i, best, totalQty) ==
  IF i > Len(viable) THEN best
  ELSE IF isBetter(scoreTuple(viable[i], totalQty), scoreTuple(best, totalQty))
       THEN scanViable(viable, i + 1, viable[i], totalQty)
       ELSE scanViable(viable, i + 1, best, totalQty)

chooseBestLayerPattern(width, depth, a, b, totalQty) ==
  LET viable == SelectSeq(candidatePatterns(width, depth, a, b),
                          LAMBDA c : fitsDeck(c, width, depth))
  IN IF Len(viable) = 0 THEN null
     ELSE scanViable(viable, 2, viable[1], totalQty)

(***************************************************************************)
(* Materialize a layer to concrete cells.  Cell origins x, z are in half   *)
(* units, measured from the deck's front-left corner.                      *)
(***************************************************************************)
Cell(x, z, fp) == [x |-> x, z |-> z, fp |-> fp]

\* variant: the columns of a block are half a footprint apart
blockCellsTight(b, originX, originZ) ==
  [i \in 1..(b.rows * b.cols) |->
     LET r == (i - 1) \div b.cols
         c == (i - 1) % b.cols
     IN Cell(originX + c * b.fp.len, originZ + 2 * r * b.fp.wid, b.fp)]

\* the nested "for r < rows, for c < cols" loops of one block whose first cell
\* has its origin at (originX, originZ)
blockCells(b, originX, originZ) ==
  [i \in 1..(b.rows * b.cols) |->
     LET r == (i - 1) \div b.cols
         c == (i - 1) % b.cols
     IN Cell(originX + 2 * c * b.fp.len, originZ + 2 * r * b.fp.wid, b.fp)]

\* variant: the occupied area starts at the deck's front-left corner
materializeLayerCellsFlush(pattern, palletW, palletD) ==
  LET b1 == pattern.blocks[1]
      b2 == pattern.blocks[2]
  IN CASE pattern.kind = "grid" -> blockCells(b1, 0, 0)
       [] pattern.kind = "split-x" ->
            blockCells(b1, 0, 0) \o blockCells(b2, 2 * b1.cols * b1.fp.len, 0)
       [] pattern.kind = "split-z" ->
            blockCells(b1, 0, 0) \o blockCells(b2, 0, 2 * b1.rows * b1.fp.wid)
       [] OTHER -> <<>>

materializeLayerCells(pattern, palletW, palletD) ==
  LET offsetX == palletW - pattern.usedWidth
      offsetZ == palletD - pattern.usedDepth
      b1 == pattern.blocks[1]
      b2 == pattern.blocks[2]
  IN CASE pattern.kind = "grid" ->
            blockCells(b1,
                       offsetX + (pattern.usedWidth - b1.cols * b1.fp.len),
                       offsetZ + (pattern.usedDepth - b1.rows * b1.fp.wid))
       [] pattern.kind = "split-x" ->
            blockCells(b1, offsetX,
                       offsetZ + (pattern.usedDepth - b1.rows * b1.fp.wid))
            \o blockCells(b2, offsetX + 2 * b1.cols * b1.fp.len,
                          offsetZ + (pattern.usedDepth - b2.rows * b2.fp.wid))
       [] pattern.kind = "split-z" ->
            blockCells(b1, offsetX + (pattern.usedWidth - b1.cols * b1.fp.len),
                       offsetZ)
            \o blockCells(b2, offsetX + (pattern.usedWidth - b2.cols * b2.fp.len),
                          offsetZ + 2 * b1.rows * b1.fp.wid)
       [] OTHER -> <<>>

(***************************************************************************)
(* Partial selector: corners first, then edges                             *)
(***************************************************************************)
SetMin(S) == CHOOSE m \in S : \A n \in S : m <= n
SetMax(S) == CHOOSE m \in S : \A n \in S : m >= n

\* axis-aligned bounds of the occupied grid and extreme cell origins (half units)
cellBounds(cells) ==
  LET I == 1..Len(cells)
  IN [minX |-> SetMin({cells[i].x : i \in I}),
      minZ |-> SetMin({cells[i].z : i \in I}),
      maxX |-> SetMax({cells[i].x + 2 * cells[i].fp.len : i \in I}),
      maxZ |-> SetMax({cells[i].z + 2 * cells[i].fp.wid : i \in I}),
      minCol |-> SetMin({cells[i].x : i \in I}),
      maxCol |-> SetMax({cells[i].x : i \in I}),
      minRow |-> SetMin({cells[i].z : i \in I}),
      maxRow |-> SetMax({cells[i].z : i \in I})]

\* corners[k](c), k = 1..4: front-left, back-left, front-right, back-right
isCornerCell(k, c, bd) ==
  /\ c.x = (IF k \in {1, 2} THEN bd.minCol ELSE bd.maxCol)
  /\ c.z = (IF k \in {1, 3} THEN bd.minRow ELSE bd.maxRow)

cornerPoint(k, bd) ==
  [x |-> IF k \in {1, 2} THEN bd.minX ELSE bd.maxX,
   z |-> IF k \in {1, 3} THEN bd.minZ ELSE bd.maxZ]

\* squared distance from the cell centre to (px, pz), all in half units
\* (four times the source's value, which leaves every comparison unchanged)
dist2(cell, px, pz) ==
  LET cx == cell.x + cell.fp.len
      cz == cell.z + cell.fp.wid
  IN (cx - px) * (cx - px) + (cz - pz) * (cz - pz)

\* distance from the cell centre to the nearest side of the bounds (half units)
edgeScore(cell, bd) ==
  LET cx == cell.x + cell.fp.len
      cz == cell.z + cell.fp.wid
  IN Min(Min(cx - bd.minX, bd.maxX - cx), Min(cz - bd.minZ, bd.maxZ - cz))

\* "for (const i of remaining) if (score(i) < best) ..." : the first index, in
\* insertion (= index) order, with the smallest score
firstSmallest(remaining, score) ==
  CHOOSE i \in remaining :
    \A j \in remaining : score[i] < score[j] \/ (score[i] = score[j] /\ i <= j)

\* variant: the corner phase starts at the back-right corner only
pickCornersBackRight(cells, r, bd, k, remaining, picked) ==
  LET exact == {i \in remaining : isCornerCell(4, cells[i], bd)}
      best == IF exact # {} THEN SetMax(exact) ELSE SetMax(remaining)
  IN [remaining |-> remaining \ {best}, picked |-> Append(picked, best)]

\* variant: the corners are visited front-left, front-right, back-left, back-right
RECURSIVE pickCornersRowFirst(_, _, _, _, _, _)
pickCornersRowFirst(cells, r, bd, k, remaining, picked) ==
  IF k > 4 \/ Len(picked) >= r THEN [remaining |-> remaining, picked |-> picked]
  ELSE LET kk == IF k = 2 THEN 3 ELSE IF k = 3 THEN 2 ELSE k
           exact == {i \in remaining : isCornerCell(kk, cells[i], bd)}
           pt == cornerPoint(kk, bd)
           best == IF exact # {} THEN SetMin(exact)
                   ELSE firstSmallest(remaining, [i \in remaining |-> dist2(cells[i], pt.x, pt.z)])
       IN IF exact = {} /\ remaining = {}
          THEN pickCornersRowFirst(cells, r, bd, k + 1, remaining, picked)
          ELSE pickCornersRowFirst(cells, r, bd, k + 1, remaining \ {best}, Append(picked, best))

RECURSIVE pickCorners(_, _, _, _, _, _)
pickCorners(cells, r, bd, k, remaining, picked) ==
  IF k > 4 \/ Len(picked) >= r THEN [remaining |-> remaining, picked |-> picked]
  ELSE LET exact == {i \in remaining : isCornerCell(k, cells[i], bd)}
           pt == cornerPoint(k, bd)
           best == IF exact # {} THEN SetMin(exact)
                   ELSE firstSmallest(remaining, [i \in remaining |-> dist2(cells[i], pt.x, pt.z)])
       IN IF exact = {} /\ remaining = {}
          THEN pickCorners(cells, r, bd, k + 1, remaining, picked)
          ELSE pickCorners(cells, r, bd, k + 1, remaining \ {best}, Append(picked, best))

\* variant: no edge phase
pickEdgesNone(cells, r, bd, remaining, picked) == picked

\* variant: the edge phase takes the remaining cells in list order
RECURSIVE pickEdgesListOrder(_, _, _, _, _)
pickEdgesListOrder(cells, r, bd, remaining, picked) ==
  IF Len(picked) >= r \/ remaining = {} THEN picked
  ELSE pickEdgesListOrder(cells, r, bd, remaining \ {SetMin(remaining)},
                          Append(picked, SetMin(remaining)))

RECURSIVE pickEdges(_, _, _, _, _)
pickEdges(cells, r, bd, remaining, picked) ==
  IF Len(picked) >= r \/ remaining = {} THEN picked
  ELSE LET best == firstSmallest(remaining, [i \in remaining |-> edgeScore(cells[i], bd)])
       IN pickEdges(cells, r, bd, remaining \ {best}, Append(picked, best))

pickCornerEdgePartialCells(cells, r) ==
  IF r <= 0 \/ cells = <<>> THEN <<>>
  ELSE LET bd == cellBounds(cells)
           c == pickCorners(cells, r, bd, 1, 1..Len(cells), <<>>)
           picked == pickEdges(cells, r, bd, c.remaining, c.picked)
       IN [n \in 1..Len(picked) |-> cells[picked[n]]]

(***************************************************************************)
(* Geometry: clamp a centre (half units, relative to the deck centre)      *)
(***************************************************************************)
\* variant: no clamp
clampCenterNone(cx, cz, len, wid, palletW, palletD) == [cx |-> cx, cz |-> cz]

clampCenterInsidePallet(cx, cz, len, wid, palletW, palletD) ==
  LET minCx == -palletW + len + 2 * EPS
      maxCx == palletW - len - 2 * EPS
      minCz == -palletD + wid + 2 * EPS
      maxCz == palletD - wid - 2 * EPS
  IN [cx |-> Max(minCx, Min(maxCx, cx)),
      cz |-> Max(minCz, Min(maxCz, cz))]

(***************************************************************************)
(* Target distribution: full layers first                                  *)
(***************************************************************************)
\* the "spread from the end back" loop: idx runs from the last pallet down
RECURSIVE spreadBack(_, _, _, _)
spreadBack(counts, rem, idx, K) ==
  IF rem > 0 /\ idx >= 1
  THEN LET m == counts[idx] % K
           room == K - (IF m = 0 THEN K ELSE m)
           take == Min(rem, room)
       IN spreadBack([counts EXCEPT ![idx] = @ + take], rem - take, idx - 1, K)
  ELSE counts

\* variant: full layers only, the remainder is never added and nothing reconciled
buildTargetsDropRemainder(total, pallets, K, layersMax) ==
  LET totalFullLayers == total \div K
  IN [i \in 1..pallets |->
        Min((totalFullLayers \div pallets)
              + (IF i <= totalFullLayers % pallets THEN 1 ELSE 0), layersMax) * K]

\* variant: the remainder goes to the first pallet
buildTargetsRemainderFirst(total, pallets, K, layersMax) ==
  LET totalFullLayers == total \div K
      counts0 == [i \in 1..pallets |->
                    Min((totalFullLayers \div pallets)
                          + (IF i <= totalFullLayers % pallets THEN 1 ELSE 0),
                        layersMax) * K]
  IN [counts0 EXCEPT ![1] = @ + (total % K)]

\* variant: every pallet is filled to capacity before the next one is started
buildTargetsGreedy(total, pallets, K, layersMax) ==
  [i \in 1..pallets |-> Max(0, Min(K * layersMax, total - (i - 1) * K * layersMax))]

buildTargetsByFullLayers(total, pallets, K, layersMax) ==
  LET totalFullLayers == total \div K
      rem == total % K
      baseLayers == totalFullLayers \div pallets
      extraLayers == totalFullLayers % pallets
      layersPerPallet ==
        [i \in 1..pallets |->
           Min(baseLayers + (IF i <= extraLayers THEN 1 ELSE 0), layersMax)]
      counts0 == [i \in 1..pallets |-> layersPerPallet[i] * K]
      spare == {i \in 1..pallets : layersPerPallet[i] < layersMax}
      placed == rem > 0 /\ spare # {}
      counts1 == IF placed THEN [counts0 EXCEPT ![SetMax(spare)] = @ + rem]
                 ELSE counts0
      counts2 == spreadBack(counts1, IF placed THEN 0 ELSE rem, pallets, K)
      diff == total - SumSeq(counts2)
  IN IF diff # 0 THEN [counts2 EXCEPT ![Len(counts2)] = @ + diff] ELSE counts2

(***************************************************************************)
(* Placements of one pallet                                                *)
(***************************************************************************)
\* `${base.id}-${idCounter++}`
makeId(base, idCounter) == <<base.id, idCounter>>

\* one BoxPlacement: the cell's centre relative to the deck centre, clamped
placementOf(cell, base, pallet, id, layerIndex) ==
  LET c == clampCenterInsidePallet(cell.x + cell.fp.len - pallet.width,
                                   cell.z + cell.fp.wid - pallet.depth,
                                   cell.fp.len, cell.fp.wid,
                                   pallet.width, pallet.depth)
  IN [x |-> c.cx, z |-> c.cz, box |-> [base EXCEPT !.id = id],
      rotation |-> cell.fp.rot, layer |-> layerIndex]

\* idCounter is the value of the caller's counter when the pallet is started;
\* every placement takes the next id
\* variant: the cells picked for the partial layer are moved along x so that
\* their bounding box is centred on the deck
buildPlacementsRecentred(targetCount, layersMax, pattern, base, pallet, idCounter, allFull) ==
  LET K == Max(1, pattern.perLayer)
      fullLayers == Min(targetCount \div K, layersMax)
      cells == materializeLayerCells(pattern, pallet.width, pallet.depth)
      n == Len(cells)
      full == [j \in 1..(fullLayers * n) |->
                 placementOf(cells[((j - 1) % n) + 1], base, pallet,
                             makeId(base, idCounter + j - 1), (j - 1) \div n)]
      remaining == targetCount - fullLayers * K
      partial == remaining > 0 /\ fullLayers < layersMax
      picked == IF partial THEN pickCornerEdgePartialCells(cells, remaining) ELSE <<>>
      shift == IF picked = <<>> THEN 0
               ELSE pallet.width - (cellBounds(picked).minX + cellBounds(picked).maxX) \div 2
      top == [j \in 1..Len(picked) |->
                placementOf([picked[j] EXCEPT !.x = @ + shift], base, pallet,
                            makeId(base, idCounter + Len(full) + j - 1), fullLayers)]
  IN [placements |-> full \o top,
      layersUsed |-> IF partial THEN fullLayers + 1 ELSE fullLayers]

\* variant: a layer is always counted on top of the full layers
buildPlacementsTopCounted(targetCount, layersMax, pattern, base, pallet, idCounter, allFull) ==
  LET K == Max(1, pattern.perLayer)
      fullLayers == Min(targetCount \div K, layersMax)
      cells == materializeLayerCells(pattern, pallet.width, pallet.depth)
      n == Len(cells)
      full == [j \in 1..(fullLayers * n) |->
                 placementOf(cells[((j - 1) % n) + 1], base, pallet,
                             makeId(base, idCounter + j - 1), (j - 1) \div n)]
      remaining == targetCount - fullLayers * K
      partial == remaining > 0 /\ fullLayers < layersMax
      picked == IF partial THEN pickCornerEdgePartialCells(cells, remaining) ELSE <<>>
      top == [j \in 1..Len(picked) |->
                placementOf(picked[j], base, pallet,
                            makeId(base, idCounter + Len(full) + j - 1), fullLayers)]
  IN [placements |-> full \o top,
      layersUsed |-> fullLayers + 1]

buildPlacementsForPallet(targetCount, layersMax, pattern, base, pallet, idCounter, allFull) ==
  LET K == Max(1, pattern.perLayer)
      fullLayers == Min(targetCount \div K, layersMax)
      cells == materializeLayerCells(pattern, pallet.width, pallet.depth)
      n == Len(cells)
      full == [j \in 1..(fullLayers * n) |->
                 placementOf(cells[((j - 1) % n) + 1], base, pallet,
                             makeId(base, idCounter + j - 1), (j - 1) \div n)]
      remaining == targetCount - fullLayers * K
      partial == remaining > 0 /\ fullLayers < layersMax
      picked == IF partial THEN pickCornerEdgePartialCells(cells, remaining) ELSE <<>>
      top == [j \in 1..Len(picked) |->
                placementOf(picked[j], base, pallet,
                            makeId(base, idCounter + Len(full) + j - 1), fullLayers)]
  IN [placements |-> full \o top,
      layersUsed |-> IF partial THEN fullLayers + 1 ELSE fullLayers]

(***************************************************************************)
(* Orchestrator                                                            *)
(***************************************************************************)
\* a percentage that is not an integer is kept as an exact fraction
Fraction(num, den) == [num |-> num, den |-> den]

\* variant: the error result still counts one pallet
emptyResultOnePallet(error) ==
  [pallets |-> <<>>, totalPallets |-> 1, totalBoxes |-> 0, totalWeight |-> 0,
   averageEfficiency |-> Fraction(0, 1), boxDistribution |-> <<>>, error |-> error]

emptyResult(error) ==
  [pallets |-> <<>>, totalPallets |-> 0, totalBoxes |-> 0, totalWeight |-> 0,
   averageEfficiency |-> Fraction(0, 1), boxDistribution |-> <<>>, error |-> error]

\* completion of a function body: a returned value or a thrown exception
Return(v) == [type |-> "return", value |-> v]
Throw(e) == [type |-> "throw", value |-> e]

\* variant: the quantity is not tested
isValidBoxAnyQuantity(b) ==
  b # null /\ b.length > 0 /\ b.width > 0 /\ b.height > 0

isValidBox(b) ==
  b # null /\ b.length > 0 /\ b.width > 0 /\ b.height > 0 /\ b.quantity > 0

\* (boxes || []).filter(..); the "|| []" is applied where the argument is read (boxesOrEmpty)
validBoxes(boxes) == SelectSeq(boxes, isValidBox)

RECURSIVE sumQuantity(_)
sumQuantity(valid) ==
  IF valid = <<>> THEN 0
  ELSE Plus(sumQuantity(SubSeq(valid, 1, Len(valid) - 1)), valid[Len(valid)].quantity)

\* variant: maxHeight = height passes
invalidPalletStrict(pallet) ==
  pallet = null \/ pallet.width <= 0 \/ pallet.depth <= 0
    \/ pallet.maxHeight < pallet.height

invalidPallet(pallet) ==
  pallet = null \/ pallet.width <= 0 \/ pallet.depth <= 0
    \/ pallet.maxHeight <= pallet.height

\* variant: rounds up
layersMaxCeil(pallet, base) ==
  ((pallet.maxHeight - pallet.height) + EPS + base.height - 1) \div base.height

\* variant: without the tolerance
layersMaxNoEPS(pallet, base) ==
  (pallet.maxHeight - pallet.height) \div base.height

layersMaxOf(pallet, base) ==
  ((pallet.maxHeight - pallet.height) + EPS) \div base.height

\* variant: floor + 1 instead of ceil
minPalletsFloorPlusOne(totalQty, capacityPerPallet) ==
  IF totalQty = Infinity THEN Infinity
  ELSE (totalQty \div Max(1, capacityPerPallet)) + 1

\* variant: floor instead of ceil
minPalletsFloor(totalQty, capacityPerPallet) ==
  IF totalQty = Infinity THEN Infinity
  ELSE Max(1, totalQty \div Max(1, capacityPerPallet))

minPalletsOf(totalQty, capacityPerPallet) ==
  IF totalQty = Infinity THEN Infinity
  ELSE LET c == Max(1, capacityPerPallet)
       IN Max(1, (totalQty + c - 1) \div c)

\* eff = min(100, usedVol / max(capVol, EPS) * 100).  Volumes are in cubic length
\* units, in which EPS (1e-6 cubic inches) is 10^12: above every capVol within
\* TLC's integers, so max(capVol, EPS) = EPS and eff = usedVol * 1e-10 percent,
\* below 100.  The efficiency is kept in units of 1e-10 percent.
efficiencyOf(usedVol, capVol) == usedVol

\* variant: one counter shared by all invocations (it goes on from the ids the
\* earlier invocations have issued)
idCounterShared ==
  SumSeq([i \in 1..Len(promises) |->
            IF promises[i].state = "fulfilled" THEN promises[i].value.totalBoxes ELSE 0])

\* let idCounter = 0 : a fresh counter for every invocation
idCounterInit == 0

\* the "for p < targets.length" loop: palletsOut after pallets p.. are added
RECURSIVE buildPallets(_, _, _, _, _, _, _, _, _)
buildPallets(p, idCounter, palletsOut, targets, layersMax, pattern, base, pallet, allFull) ==
  IF p > Len(targets) THEN palletsOut
  ELSE LET K == pattern.perLayer
           t == Min(targets[p], K * layersMax)
           built == buildPlacementsForPallet(t, layersMax, pattern, base, pallet,
                                             idCounter, allFull)
           count == Len(built.placements)
           usedVol == count * base.length * base.width * base.height
           capVol == pallet.width * pallet.depth * (pallet.maxHeight - pallet.height)
           pr == [palletNumber |-> p,
                  placements |-> built.placements,
                  layers |-> built.layersUsed,
                  boxesPerLayer |-> K,
                  totalBoxes |-> count,
                  totalWeight |-> count * base.weight,
                  efficiency |-> efficiencyOf(usedVol, capVol),
                  totalHeight |-> pallet.height + built.layersUsed * base.height]
       IN buildPallets(p + 1, idCounter + count, Append(palletsOut, pr), targets,
                       layersMax, pattern, base, pallet, allFull)

\* lines 173-185: the totals over palletsOut and the returned result
totalsOf(palletsOut, base) ==
  LET totalPallets == Len(palletsOut)
      P == 1..totalPallets
  IN Return(
       [pallets |-> palletsOut,
        totalPallets |-> totalPallets,
        totalBoxes |-> SumSeq([p \in P |-> palletsOut[p].totalBoxes]),
        totalWeight |-> SumSeq([p \in P |-> palletsOut[p].totalWeight]),
        averageEfficiency |->
          IF totalPallets # 0
          THEN Fraction(SumSeq([p \in P |-> palletsOut[p].efficiency]), totalPallets)
          ELSE Fraction(0, 1),
        boxDistribution |->
          [s \in {base.sku} |-> [p \in P |-> palletsOut[p].totalBoxes]],
        error |-> undefined])

\* lines 139-171: allFull, the fresh id counter and the loop over the targets
fillPallets(targets, pattern, layersMax, base, pallet) ==
  totalsOf(buildPallets(1, idCounterInit, <<>>, targets, layersMax, pattern, base,
                        pallet, \A p \in 1..Len(targets) : targets[p] % pattern.perLayer = 0),
           base)

\* lines 136-137: the targets; new Array(pallets) inside buildTargetsByFullLayers
\* raises RangeError for an infinite pallet count
distribute(pattern, layersMax, minPallets, base, pallet) ==
  IF minPallets = Infinity THEN Throw("RangeError: Invalid array length")
  ELSE fillPallets(buildTargetsByFullLayers(base.quantity, minPallets, pattern.perLayer,
                                            layersMax),
                   pattern, layersMax, base, pallet)

\* lines 126-134: the two checks on the pattern and the clearance, then the
\* capacity K * layersMax and the pallet count
stackLayers(pattern, base, pallet) ==
  IF pattern = null \/ pattern.perLayer = 0
  THEN Return(emptyResult("Box footprint does not fit on pallet area"))
  ELSE IF layersMaxOf(pallet, base) <= 0
  THEN Return(emptyResult("No vertical clearance for a single layer"))
  ELSE distribute(pattern, layersMaxOf(pallet, base),
                  minPalletsOf(base.quantity, pattern.perLayer * layersMaxOf(pallet, base)),
                  base, pallet)

\* lines 120-125: the two footprints and the pattern; base.quantity is totalQty
choosePattern(base, pallet) ==
  stackLayers(chooseBestLayerPattern(pallet.width, pallet.depth,
                                     Footprint(base.length, base.width, 0),
                                     Footprint(base.width, base.length, 90),
                                     base.quantity),
              base, pallet)

\* lines 113-118: the single-SKU aggregate
\* variant: the last valid record is the base
aggregateLast(valid, pallet) ==
  IF Len(valid) = 0 THEN Return(emptyResult("No valid boxes with dimensions defined"))
  ELSE choosePattern([valid[Len(valid)] EXCEPT !.quantity = sumQuantity(valid)], pallet)

aggregate(valid, pallet) ==
  IF Len(valid) = 0 THEN Return(emptyResult("No valid boxes with dimensions defined"))
  ELSE choosePattern([valid[1] EXCEPT !.quantity = sumQuantity(valid)], pallet)

performCalc(boxes, pallet) ==
  IF invalidPallet(pallet) THEN Return(emptyResult("Invalid pallet configuration"))
  ELSE aggregate(validBoxes(boxes), pallet)

(***************************************************************************)
(* calculateMultiPalletLayout: the promise and its deferred task           *)
(***************************************************************************)
\* The arguments of a call: [boxes, pallet]; a call that passes null for boxes
\* is an argument record without the boxes field.  boxes || []
boxesOrEmpty(args) == IF "boxes" \in DOMAIN args THEN args.boxes ELSE <<>>

\* new Promise(...): pending, resolve not yet called
newPromise(args) ==
  [args |-> args, state |-> "pending", value |-> null, resolveCalls |-> 0]

\* resolve(v): settles a pending promise; a later call changes nothing but is counted
resolve(p, v) ==
  IF p.state = "pending"
  THEN [p EXCEPT !.state = "fulfilled", !.value = v, !.resolveCalls = @ + 1]
  ELSE [p EXCEPT !.resolveCalls = @ + 1]

\* variant: no catch; the exception leaves the callback and resolve is never called
runTaskNoCatch(p) ==
  LET c == performCalc(boxesOrEmpty(p.args), p.args.pallet)
  IN IF c.type = "throw" THEN p ELSE resolve(p, c.value)

\* the setTimeout callback: try { resolve(performCalc(..)) } catch { resolve(..) }
runTask(p) ==
  LET c == performCalc(boxesOrEmpty(p.args), p.args.pallet)
  IN IF c.type = "throw" THEN resolve(p, emptyResult("Calculation failed"))
     ELSE resolve(p, c.value)

\* the engine is called directly: there is no page component
noPage == [isMounted |-> FALSE]

\* the caller invokes calculateMultiPalletLayout with its next arguments: the
\* promise is created and the callback queued; nothing is computed yet
Call ==
  /\ script # <<>>
  /\ promises' = Append(promises, newPromise(Head(script)))
  /\ timers' = Append(timers, Len(promises) + 1)
  /\ script' = Tail(script)
  /\ UNCHANGED <<page, autoTimers>>

\* the event loop runs the oldest queued callback to completion
TimerFires ==
  /\ timers # <<>>
  /\ promises' = [promises EXCEPT ![Head(timers)] = runTask(@)]
  /\ timers' = Tail(timers)
  /\ UNCHANGED <<script, page, autoTimers>>

Next == Call \/ TimerFires

(***************************************************************************)
(* Inputs                                                                  *)
(***************************************************************************)
MaxDeckDim == 7
MaxBoxDim == 4
MaxBoxHeight == 3
MaxStackHeight == 6
MaxQty == 7
MaxCalls == 2

DeckDims == {0} \cup ((MaxDeckDim - 1)..MaxDeckDim)
DeckHeights == {2}
StackHeights == 1..MaxStackHeight
\* box sides: missing, small, as wide as the largest deck, wider than every deck
BoxDims == {0} \cup (3..MaxBoxDim) \cup (MaxDeckDim..(MaxDeckDim + 1))
BoxHeights == 0..MaxBoxHeight
Quantities == (0..MaxQty) \cup {Infinity}

Pallet(width, depth, height, maxHeight) ==
  [type |-> "custom", width |-> width, depth |-> depth, height |-> height,
   maxHeight |-> maxHeight]

Pallets ==
  {null} \cup {Pallet(w, d, h, m) : w \in DeckDims, d \in DeckDims,
                                    h \in DeckHeights, m \in StackHeights}

Box(id, length, width, height, quantity) ==
  [id |-> id, sku |-> "SKU", length |-> length, width |-> width, height |-> height,
   weight |-> 3, quantity |-> quantity, color |-> "#8B4513"]

BoxRecords ==
  {Box("a", l, w, h, q) : l \in BoxDims, w \in BoxDims, h \in BoxHeights, q \in Quantities}

\* further records of a list: missing, invalid, or valid with other dimensions
OtherRecords ==
  {null} \cup {Box("b", l, 3, h, q) : l \in {0, 3}, h \in {1, 2}, q \in {0, 1, MaxQty}}

BoxLists ==
  {<<>>} \cup {<<r>> : r \in BoxRecords}
    \cup {<<r, o>> : r \in OtherRecords \cup {Box("a", 4, 3, 2, 2)}, o \in OtherRecords}

Inputs == [boxes : BoxLists, pallet : Pallets] \cup [pallet : Pallets]

\* one call with any input
Init ==
  /\ script \in {<<a>> : a \in Inputs}
  /\ promises = <<>>
  /\ timers = <<>>
  /\ page = noPage
  /\ autoTimers = {}

Spec == Init /\ [][Next]_vars

\* a few inputs, one per outcome of the engine, for runs of several calls
SampleInputs ==
  { [boxes |-> <<Box("a", 3, 4, 2, 7)>>, pallet |-> Pallet(7, 6, 2, 6)],
    [boxes |-> <<Box("a", 3, 3, 2, 3), Box("b", 3, 3, 2, 2)>>, pallet |-> Pallet(6, 6, 2, 6)],
    [boxes |-> <<Box("a", 3, 4, 2, 7)>>, pallet |-> Pallet(7, 6, 2, 2)],
    [boxes |-> <<Box("a", 8, 8, 8, 1)>>, pallet |-> Pallet(7, 6, 2, 6)],
    [boxes |-> <<Box("a", 3, 4, 5, 1)>>, pallet |-> Pallet(7, 6, 2, 6)],
    [boxes |-> <<Box("a", 3, 4, 2, Infinity)>>, pallet |-> Pallet(7, 6, 2, 6)],
    [pallet |-> Pallet(7, 6, 2, 6)] }

RECURSIVE Scripts(_)
Scripts(n) ==
  IF n = 0 THEN {<<>>}
  ELSE {Append(s, a) : s \in Scripts(n - 1), a \in SampleInputs}

\* MaxCalls calls with sample inputs
InitCalls ==
  /\ script \in Scripts(MaxCalls)
  /\ promises = <<>>
  /\ timers = <<>>
  /\ page = noPage
  /\ autoTimers = {}

\* the event loop takes the oldest callback off its queue: the steps that do so
\* are exactly the TimerFires steps, and the action is enabled exactly when
\* TimerFires is
Dequeue == timers # <<>> /\ timers' = Tail(timers)

CallsSpec == InitCalls /\ [][Next]_vars /\ WF_timers(Dequeue)

\* one call on a deck and with a box drawn from wider ranges, for the layer
\* geometry: every footprint from 3 units, every deck from 3 units
MaxLayerDeck == 10
MaxLayerBox == 5
MaxLayerQty == 10

LayerInputs ==
  {[boxes |-> <<Box("a", l, w, 2, q)>>, pallet |-> Pallet(W, D, 2, 6)] :
     l \in 3..MaxLayerBox, w \in 3..MaxLayerBox, q \in 1..MaxLayerQty,
     W \in 3..MaxLayerDeck, D \in 3..MaxLayerDeck}

InitLayer ==
  /\ script \in {<<a>> : a \in LayerInputs}
  /\ promises = <<>>
  /\ timers = <<>>
  /\ page = noPage
  /\ autoTimers = {}

LayerSpec == InitLayer /\ [][Next]_vars

\* one call with a small layer (K = 1, 2 or 4), a stack of 1 to 5 layers and a
\* quantity that needs up to MaxTargetsQty pallets, for the distribution
MaxTargetsQty == 20
MaxTargetsStack == 7

TargetsInputs ==
  {[boxes |-> <<Box("a", 3, 3, h, q)>>, pallet |-> Pallet(W, D, 2, m)] :
     h \in 1..2, q \in 1..MaxTargetsQty, W \in {3, 6}, D \in {3, 6},
     m \in 3..MaxTargetsStack}

InitTargets ==
  /\ script \in {<<a>> : a \in TargetsInputs}
  /\ promises = <<>>
  /\ timers = <<>>
  /\ page = noPage
  /\ autoTimers = {}

TargetsSpec == InitTargets /\ [][Next]_vars

\* one call with a list of up to MaxRecords records that differ in id,
\* dimensions and weight, some invalid or missing, one of another SKU
MaxRecords == 3

AggregateRecords ==
  { Box("a", 3, 4, 2, 2),
    [Box("b", 4, 3, 1, 3) EXCEPT !.weight = 5],
    [Box("c", 3, 3, 2, 1) EXCEPT !.weight = 7],
    Box("d", 0, 3, 2, 4),
    [Box("e", 3, 3, 1, 2) EXCEPT !.sku = "OTHER"],
    null }

RECURSIVE ListsUpTo(_)
ListsUpTo(n) ==
  IF n = 0 THEN {<<>>}
  ELSE ListsUpTo(n - 1)
         \cup {Append(l, r) : l \in {m \in ListsUpTo(n - 1) : Len(m) = n - 1},
                              r \in AggregateRecords}

AggregateInputs ==
  [boxes : ListsUpTo(MaxRecords), pallet : {Pallet(7, 6, 2, 6), Pallet(6, 6, 2, 4)}]

InitAggregate ==
  /\ script \in {<<a>> : a \in AggregateInputs}
  /\ promises = <<>>
  /\ timers = <<>>
  /\ page = noPage
  /\ autoTimers = {}

AggregateSpec == InitAggregate /\ [][Next]_vars

(***************************************************************************)
(* The calculator page (src/app/calculator/[id]/page.tsx).  Lengths of the *)
(* page's inputs are in tenths of an inch.  A change of the inputs, the    *)
(* render that follows it and the effects of that render are one step.     *)
(***************************************************************************)
\* DEFAULT_LIMITS, lengths in tenths of an inch
DEFAULT_LIMITS ==
  [boxMinDimIn |-> 1, boxMaxDimIn |-> 1200, boxMaxWeightLbs |-> 1500,
   boxMaxQuantity |-> 100000, customPalletMinWidthIn |-> 320,
   customPalletMinDepthIn |-> 300, customPalletMinHeightIn |-> 45,
   customPalletMaxHeightIn |-> 70, customPalletMaxWeightLbs |-> 70,
   overallMaxHeightIn |-> 1020]

PALLET_TYPES ==
  [p48x40 |-> [width |-> 480, depth |-> 400, height |-> 55],
   p48x48 |-> [width |-> 480, depth |-> 480, height |-> 55],
   custom |-> [width |-> 480, depth |-> 400, height |-> 55]]

PALLET_BASE_WEIGHTS == [p48x40 |-> 35, p48x48 |-> 50, custom |-> 40]

\* the value undefined in a field that holds a number
undefinedNumber == -2147483646

isFiniteNum(n) == n # undefinedNumber /\ n # NaN /\ n # Infinity

\* the isValid field of each validator's result (quantities are integers here)
validateQuantity(quantity) ==
  /\ isFiniteNum(quantity)
  /\ ~(quantity <= 0)
  /\ ~(quantity > DEFAULT_LIMITS.boxMaxQuantity)

validateBoxDimension(value) ==
  /\ isFiniteNum(value)
  /\ ~(value <= DEFAULT_LIMITS.boxMinDimIn)
  /\ ~(value > DEFAULT_LIMITS.boxMaxDimIn)

validateBoxWeight(weight) ==
  /\ isFiniteNum(weight)
  /\ ~(weight < 0)
  /\ ~(weight > DEFAULT_LIMITS.boxMaxWeightLbs)

validateMaxHeight(maxHeight, boxHeight) ==
  /\ isFiniteNum(maxHeight)
  /\ ~(maxHeight > DEFAULT_LIMITS.overallMaxHeightIn)
  /\ ~(boxHeight # undefinedNumber /\ boxHeight # 0 /\ boxHeight # NaN /\ maxHeight <= boxHeight)

validateCustomPalletWidth(width) ==
  isFiniteNum(width) /\ ~(width < DEFAULT_LIMITS.customPalletMinWidthIn)

validateCustomPalletDepth(depth) ==
  isFiniteNum(depth) /\ ~(depth < DEFAULT_LIMITS.customPalletMinDepthIn)

validateCustomPalletHeight(height) ==
  /\ isFiniteNum(height)
  /\ ~(height < DEFAULT_LIMITS.customPalletMinHeightIn
       \/ height > DEFAULT_LIMITS.customPalletMaxHeightIn)

validateCustomPalletWeight(weight) ==
  /\ isFiniteNum(weight) /\ ~(weight <= 0)
  /\ ~(weight > DEFAULT_LIMITS.customPalletMaxWeightLbs)

\* "x || 0"
orZero(x) == IF x = undefinedNumber \/ x = NaN THEN 0 ELSE x

\* whether validateBoxPalletCompatibility reports an error
compatibilityError(box, pallet) ==
  IF ~isFiniteNum(box.height) \/ ~isFiniteNum(pallet.height) \/ ~isFiniteNum(pallet.maxHeight)
  THEN FALSE
  ELSE LET hasVerticalSpace == box.height <= pallet.maxHeight - pallet.height
           fitsNormal == orZero(box.length) <= pallet.width /\ orZero(box.width) <= pallet.depth
           fitsRotated == orZero(box.width) <= pallet.width /\ orZero(box.length) <= pallet.depth
       IN ~hasVerticalSpace \/ ~(fitsNormal \/ fitsRotated)

\* variant: every form is valid
isFormValidAlways(boxes, palletConfig, palletWeight) == TRUE

isFormValid(boxes, palletConfig, palletWeight) ==
  IF boxes = <<>> THEN FALSE
  ELSE LET box == boxes[1]
       IN /\ validateQuantity(box.quantity)
          /\ validateBoxDimension(box.length)
          /\ validateBoxDimension(box.width)
          /\ validateBoxDimension(box.height)
          /\ validateBoxWeight(box.weight)
          /\ validateMaxHeight(palletConfig.maxHeight, box.height)
          /\ \/ palletConfig.type # "custom"
             \/ /\ validateCustomPalletWidth(palletConfig.width)
                /\ validateCustomPalletDepth(palletConfig.depth)
                /\ validateCustomPalletHeight(palletConfig.height)
                /\ validateCustomPalletWeight(palletWeight)
          /\ ~compatibilityError(box, palletConfig)

\* the template strings: two keys are equal exactly when all their parts are
palletKey(palletConfig) ==
  <<palletConfig.type, palletConfig.width, palletConfig.depth,
    palletConfig.height, palletConfig.maxHeight>>

boxKey(boxes) ==
  IF boxes = <<>> THEN <<"nobox">>
  ELSE <<boxes[1].quantity, boxes[1].length, boxes[1].width, boxes[1].height,
         boxes[1].weight>>

\* the dependency list of the auto-recalc effect
effectDeps(pg) ==
  <<palletKey(pg.palletConfig), boxKey(pg.boxes),
    isFormValid(pg.boxes, pg.palletConfig, pg.palletWeight), pg.isMounted>>

\* clearTimeout(id); id = 0 stands for "the last run returned no cleanup"
clearTimeout(pending, id) == {t \in pending : t.id # id}

\* variant: the effect returns no cleanup
autoRecalcEffectNoCleanup(prev, next, pending) ==
  IF effectDeps(next) = effectDeps(prev) THEN [page |-> next, autoTimers |-> pending]
  ELSE IF ~isFormValid(next.boxes, next.palletConfig, next.palletWeight)
       THEN [page |-> [next EXCEPT !.calculation = null, !.calcFrom = 0, !.cleanup = 0],
             autoTimers |-> pending]
       ELSE [page |-> [next EXCEPT !.cleanup = next.nextTimerId, !.nextTimerId = @ + 1],
             autoTimers |-> pending \cup
               {[id |-> next.nextTimerId,
                 args |-> [boxes |-> next.boxes, pallet |-> next.palletConfig]]}]

\* the render from state prev to state next: when a dependency has changed the
\* cleanup of the last run is called and the effect runs again
autoRecalcEffect(prev, next, pending) ==
  IF effectDeps(next) = effectDeps(prev) THEN [page |-> next, autoTimers |-> pending]
  ELSE IF ~next.isMounted THEN [page |-> [next EXCEPT !.cleanup = 0],
                                autoTimers |-> clearTimeout(pending, prev.cleanup)]
  ELSE IF ~isFormValid(next.boxes, next.palletConfig, next.palletWeight)
       THEN [page |-> [next EXCEPT !.calculation = null, !.calcFrom = 0, !.cleanup = 0],
             autoTimers |-> clearTimeout(pending, prev.cleanup)]
       ELSE [page |-> [next EXCEPT !.cleanup = next.nextTimerId, !.nextTimerId = @ + 1],
             autoTimers |-> clearTimeout(pending, prev.cleanup) \cup
               {[id |-> next.nextTimerId,
                 args |-> [boxes |-> next.boxes, pallet |-> next.palletConfig]]}]

defaultBox ==
  [id |-> "box-0", sku |-> "", length |-> undefinedNumber, width |-> undefinedNumber,
   height |-> undefinedNumber, weight |-> undefinedNumber, quantity |-> undefinedNumber,
   color |-> "#9ca3af"]

\* updatePalletConfig: a pallet type other than custom brings its base weight
palletWeightFor(palletConfig, w) ==
  IF palletConfig.type = "48x40" THEN PALLET_BASE_WEIGHTS.p48x40
  ELSE IF palletConfig.type = "48x48" THEN PALLET_BASE_WEIGHTS.p48x48
  ELSE w

\* the page's calls of the engine and edits of the form are bounded
MaxChanges == 3
MaxClicks == 2

PageBox(height, quantity) ==
  [defaultBox EXCEPT !.length = 240, !.width = 200, !.height = height,
                     !.weight = 5, !.quantity = quantity]

\* no entry, two valid quantities, a quantity of zero, a box too tall to stack
PageBoxes ==
  {defaultBox, PageBox(300, 3), PageBox(300, 9), PageBox(300, 0), PageBox(700, 3)}

PagePallets ==
  {[type |-> "48x40", width |-> PALLET_TYPES.p48x40.width,
    depth |-> PALLET_TYPES.p48x40.depth, height |-> PALLET_TYPES.p48x40.height,
    maxHeight |-> 720],
   [type |-> "custom", width |-> 300, depth |-> 400, height |-> 55, maxHeight |-> 720]}

PageInputs == [boxes : {<<b>> : b \in PageBoxes}, pallet : PagePallets]

\* the page after its first render and effects, nothing saved under its
\* reference: the default box, the 48x40 pallet, no calculation.  The fields
\* changes, clicks, modes, epochs and calcFrom record the history: the number of
\* edits and of clicks, for each call of the engine the path that made it and
\* the number of edits before it, and the call whose result is stored.
mountedPage ==
  [isMounted |-> TRUE, boxes |-> <<defaultBox>>,
   palletConfig |-> CHOOSE p \in PagePallets : p.type = "48x40",
   palletWeight |-> PALLET_BASE_WEIGHTS.p48x40,
   calculation |-> null, isCalculating |-> FALSE,
   cleanup |-> 0, nextTimerId |-> 1,
   changes |-> 0, clicks |-> 0, modes |-> <<>>, epochs |-> <<>>, calcFrom |-> 0]

InitPage ==
  /\ script = <<>>
  /\ promises = <<>>
  /\ timers = <<>>
  /\ page = mountedPage
  /\ autoTimers = {}

\* updateBox / updatePalletConfig, the render and its effects
ChangeInput ==
  /\ page.changes < MaxChanges
  /\ \E in \in PageInputs :
       /\ <<in.boxes, in.pallet>> # <<page.boxes, page.palletConfig>>
       /\ LET next == [page EXCEPT !.boxes = in.boxes, !.palletConfig = in.pallet,
                                   !.palletWeight = palletWeightFor(in.pallet, @),
                                   !.changes = @ + 1]
              e == autoRecalcEffect(page, next, autoTimers)
          IN page' = e.page /\ autoTimers' = e.autoTimers
  /\ UNCHANGED <<script, promises, timers>>

\* confirmClear, the render and its effects
ConfirmClear ==
  /\ page.boxes # <<defaultBox>> => page.changes < MaxChanges
  /\ LET next == [page EXCEPT !.calculation = null, !.calcFrom = 0,
                              !.boxes = <<defaultBox>>,
                              !.changes = IF page.boxes = <<defaultBox>> THEN @ ELSE @ + 1]
         e == autoRecalcEffect(page, next, autoTimers)
     IN page' = e.page /\ autoTimers' = e.autoTimers
  /\ UNCHANGED <<script, promises, timers>>

\* the callback of the effect's setTimeout(.., 300), up to its await: the
\* engine is called with the boxes and the pallet of the render that set the timer
AutoTimerFires ==
  /\ \E t \in autoTimers :
       /\ autoTimers' = autoTimers \ {t}
       /\ promises' = Append(promises, newPromise(t.args))
  /\ timers' = Append(timers, Len(promises) + 1)
  /\ page' = [page EXCEPT !.isCalculating = TRUE, !.modes = Append(@, "auto"),
                          !.epochs = Append(@, page.changes)]
  /\ UNCHANGED script

\* handleCalculate up to its await
handleCalculate(pg) ==
  IF ~isFormValid(pg.boxes, pg.palletConfig, pg.palletWeight) THEN pg
  ELSE [pg EXCEPT !.isCalculating = TRUE, !.calculation = null, !.calcFrom = 0,
                  !.modes = Append(@, "manual"), !.epochs = Append(@, pg.changes)]

\* a click on the Calculate button, which is disabled while isCalculating or
\* while the form is invalid
ClickCalculate ==
  /\ page.clicks < MaxClicks
  /\ ~(page.isCalculating \/ ~isFormValid(page.boxes, page.palletConfig, page.palletWeight))
  /\ page' = [handleCalculate(page) EXCEPT !.clicks = @ + 1]
  /\ promises' = Append(promises, newPromise([boxes |-> page.boxes, pallet |-> page.palletConfig]))
  /\ timers' = Append(timers, Len(promises) + 1)
  /\ UNCHANGED <<script, autoTimers>>

\* variant: the result of the auto path is not stored
afterAwaitManualOnly(pg, k, p) ==
  IF pg.modes[k] = "manual"
  THEN [pg EXCEPT !.calculation = p.value, !.calcFrom = k, !.isCalculating = FALSE]
  ELSE [pg EXCEPT !.isCalculating = FALSE]

\* what follows the await of call k, on either path, once promise p is
\* fulfilled: setCalculation(result), and setIsCalculating(false) in the finally
afterAwait(pg, k, p) ==
  [pg EXCEPT !.calculation = p.value, !.calcFrom = k, !.isCalculating = FALSE]

\* the event loop runs the engine's oldest queued callback, and the microtasks
\* that follow it resume the page's function that awaits the promise
PageTimerFires ==
  /\ timers # <<>>
  /\ promises' = [promises EXCEPT ![Head(timers)] = runTask(@)]
  /\ timers' = Tail(timers)
  /\ page' = afterAwait(page, Head(timers), promises'[Head(timers)])
  /\ UNCHANGED <<script, autoTimers>>

NextPage ==
  ChangeInput \/ ConfirmClear \/ AutoTimerFires \/ ClickCalculate \/ PageTimerFires

\* a pending 300 ms timer leaves the event loop's timer list: it fires, or it is
\* cleared.  A timer that is due and not cleared fires.
AutoDequeue ==
  /\ autoTimers # {}
  /\ \E t \in autoTimers : autoTimers' = autoTimers \ {t}

PageSpec == InitPage /\ [][NextPage]_vars /\ WF_autoTimers(AutoDequeue)

(***************************************************************************)
(* Properties.  The vocabulary below is that of the specification's        *)
(* statements; none of it is taken from the engine's operators.            *)
(***************************************************************************)
Fulfilled == {i \in 1..Len(promises) : promises[i].state = "fulfilled"}

ArgBoxes(i) == IF "boxes" \in DOMAIN promises[i].args THEN promises[i].args.boxes ELSE <<>>
ArgPallet(i) == promises[i].args.pallet
Result(i) == promises[i].value
NoError(i) == Result(i).error = undefined

ValidEnvelope(pallet) ==
  pallet # null /\ pallet.width > 0 /\ pallet.depth > 0 /\ pallet.maxHeight > pallet.height

\* positions of the records with positive dimensions and positive quantity
ValidRecords(boxes) ==
  {n \in 1..Len(boxes) :
     /\ boxes[n] # null
     /\ boxes[n].length > 0 /\ boxes[n].width > 0 /\ boxes[n].height > 0
     /\ boxes[n].quantity > 0}

FirstValid(boxes) == boxes[SetMin(ValidRecords(boxes))]

IntegerQuantities(boxes) == \A n \in ValidRecords(boxes) : boxes[n].quantity # Infinity

RECURSIVE SumOver(_, _)
SumOver(S, f) ==
  IF S = {} THEN 0 ELSE LET n == CHOOSE m \in S : TRUE IN f[n] + SumOver(S \ {n}, f)

\* Q: the sum of the valid records' quantities
Q(boxes) == SumOver(ValidRecords(boxes), [n \in ValidRecords(boxes) |-> boxes[n].quantity])

FitsDeck(box, pallet) ==
  \/ box.length <= pallet.width /\ box.width <= pallet.depth
  \/ box.width <= pallet.width /\ box.length <= pallet.depth

Clearance(pallet) == pallet.maxHeight - pallet.height

PalletBoxes(r) == SumSeq([p \in 1..Len(r.pallets) |-> r.pallets[p].totalBoxes])

\* a call whose envelope is valid and whose list has a valid record
Usable(i) == ValidEnvelope(ArgPallet(i)) /\ ValidRecords(ArgBoxes(i)) # {}

\* C1 (quantity conservation): for a valid envelope and positive integer
\* quantities, a box that fits the deck and has vertical clearance gives a
\* result without error whose pallets hold, in placements and in totalBoxes,
\* exactly Q boxes, and result.totalBoxes = Q.
C1_QuantityConservation ==
  \A i \in Fulfilled :
    ( /\ Usable(i)
      /\ IntegerQuantities(ArgBoxes(i))
      /\ FitsDeck(FirstValid(ArgBoxes(i)), ArgPallet(i))
      /\ FirstValid(ArgBoxes(i)).height <= Clearance(ArgPallet(i)) )
    => /\ NoError(i)
       /\ \A p \in 1..Len(Result(i).pallets) :
            Result(i).pallets[p].totalBoxes = Len(Result(i).pallets[p].placements)
       /\ PalletBoxes(Result(i)) = Q(ArgBoxes(i))
       /\ Result(i).totalBoxes = Q(ArgBoxes(i))

\* two valid records, several pallets, one of them with a partial top layer
C1_Witness ==
  \E i \in Fulfilled :
    /\ Usable(i) /\ NoError(i)
    /\ Cardinality(ValidRecords(ArgBoxes(i))) = 2
    /\ Len(Result(i).pallets) >= 2
    /\ \E p \in 1..Len(Result(i).pallets) :
         Result(i).pallets[p].totalBoxes % Result(i).pallets[p].boxesPerLayer # 0
    /\ Result(i).totalBoxes = Q(ArgBoxes(i))

\* C2 as stated (capacity bound with floor((maxHeight - deckHeight) / boxHeight)):
\* every pallet of an error-free result has totalBoxes <= boxesPerLayer * layers and
\* layers <= floor((maxHeight - deckHeight) / boxHeight).
C2_CapacityBound_AsStated ==
  \A i \in Fulfilled :
    (Usable(i) /\ NoError(i)) =>
      \A p \in 1..Len(Result(i).pallets) :
        LET pr == Result(i).pallets[p]
            L == Clearance(ArgPallet(i)) \div FirstValid(ArgBoxes(i)).height
        IN /\ pr.totalBoxes <= pr.boxesPerLayer * pr.layers
           /\ pr.layers <= L
           /\ pr.totalBoxes <= pr.boxesPerLayer * L

\* C2 (amended): every pallet of an error-free result has
\* totalBoxes <= boxesPerLayer * layers and
\* layers <= floor((maxHeight - deckHeight + EPS) / boxHeight), EPS = 1e-6.
C2_CapacityBound ==
  \A i \in Fulfilled :
    (Usable(i) /\ NoError(i)) =>
      \A p \in 1..Len(Result(i).pallets) :
        LET pr == Result(i).pallets[p]
            L == (Clearance(ArgPallet(i)) + EPS) \div FirstValid(ArgBoxes(i)).height
        IN /\ pr.totalBoxes <= pr.boxesPerLayer * pr.layers
           /\ pr.layers <= L
           /\ pr.totalBoxes <= pr.boxesPerLayer * L

\* a pallet filled to the bound: L >= 2 layers, all of them full
C2_Witness ==
  \E i \in Fulfilled :
    /\ Usable(i) /\ NoError(i)
    /\ \E p \in 1..Len(Result(i).pallets) :
         LET pr == Result(i).pallets[p]
             L == (Clearance(ArgPallet(i)) + EPS) \div FirstValid(ArgBoxes(i)).height
         IN L >= 2 /\ pr.layers = L /\ pr.totalBoxes = pr.boxesPerLayer * L

\* C3 (minimal pallet count): an error-free result has max(1, ceil(Q / (K * L)))
\* pallets, K the pattern's capacity per layer and L the maximal number of
\* layers of a pallet: P pallets hold Q boxes and P - 1 pallets would not.
C3_MinimalPalletCount ==
  \A i \in Fulfilled :
    (Usable(i) /\ NoError(i)) =>
      LET r == Result(i)
          P == Len(r.pallets)
          K == r.pallets[1].boxesPerLayer
          L == (Clearance(ArgPallet(i)) + EPS) \div FirstValid(ArgBoxes(i)).height
          cap == K * L
      IN /\ P >= 1 /\ r.totalPallets = P
         /\ \A p \in 1..P : r.pallets[p].boxesPerLayer = K
         /\ P = Max(1, (Q(ArgBoxes(i)) + cap - 1) \div cap)
         /\ P * cap >= Q(ArgBoxes(i))
         /\ P > 1 => (P - 1) * cap < Q(ArgBoxes(i))

\* several pallets, all of them exactly full (Q a multiple of K * L)
C3_Witness ==
  \E i \in Fulfilled :
    /\ Usable(i) /\ NoError(i)
    /\ Len(Result(i).pallets) >= 2
    /\ LET K == Result(i).pallets[1].boxesPerLayer
           L == (Clearance(ArgPallet(i)) + EPS) \div FirstValid(ArgBoxes(i)).height
       IN K >= 2 /\ Q(ArgBoxes(i)) = Len(Result(i).pallets) * K * L

\* C4 (error results are empty): a result with its error set has no pallets,
\* totals 0 and an empty distribution; a result without error has a pallet.
C4_ErrorResultEmpty ==
  \A i \in Fulfilled :
    LET r == Result(i)
    IN /\ r.error # undefined =>
            /\ r.pallets = <<>>
            /\ r.totalPallets = 0 /\ r.totalBoxes = 0 /\ r.totalWeight = 0
            /\ r.averageEfficiency.num = 0
            /\ DOMAIN r.boxDistribution = {}
       /\ r.error = undefined => Len(r.pallets) >= 1

\* an error found after the pattern search
C4_Witness ==
  \E i \in Fulfilled :
    Result(i).error = "No vertical clearance for a single layer" /\ Result(i).pallets = <<>>

\* C5 (invalid envelope): a missing envelope, or one with width <= 0, depth <= 0
\* or maxHeight <= deckHeight, gives "Invalid pallet configuration" and no
\* pallets, whatever the boxes are.
C5_InvalidPallet ==
  \A i \in Fulfilled :
    ~ValidEnvelope(ArgPallet(i)) =>
      /\ Result(i).error = "Invalid pallet configuration"
      /\ Result(i).pallets = <<>>

\* maxHeight = deckHeight with a valid box, and a missing envelope with no box
C5_Witness ==
  \E i \in Fulfilled :
    /\ ArgPallet(i) # null
    /\ ArgPallet(i).width > 0 /\ ArgPallet(i).depth > 0
    /\ ArgPallet(i).maxHeight = ArgPallet(i).height
    /\ ValidRecords(ArgBoxes(i)) # {}
    /\ Result(i).error = "Invalid pallet configuration"

\* C6 (no valid boxes): with a valid envelope the error is "No valid boxes with
\* dimensions defined" exactly when no record has positive dimensions and
\* quantity; otherwise invalid records add nothing to the quantity placed.
C6_NoValidBoxes ==
  \A i \in Fulfilled :
    ValidEnvelope(ArgPallet(i)) =>
      /\ Result(i).error = "No valid boxes with dimensions defined"
           <=> ValidRecords(ArgBoxes(i)) = {}
      /\ (ValidRecords(ArgBoxes(i)) # {} /\ NoError(i)) =>
           /\ Result(i).totalBoxes = Q(ArgBoxes(i))
           /\ PalletBoxes(Result(i)) = Q(ArgBoxes(i))

\* an invalid record with a positive quantity before a valid one
C6_Witness ==
  \E i \in Fulfilled :
    /\ ValidEnvelope(ArgPallet(i)) /\ NoError(i)
    /\ Len(ArgBoxes(i)) = 2 /\ ValidRecords(ArgBoxes(i)) = {2}
    /\ ArgBoxes(i)[1] # null /\ ArgBoxes(i)[1].quantity > 0
    /\ Result(i).totalBoxes = ArgBoxes(i)[2].quantity

\* C7 (footprint): with a valid envelope and a valid box the error is "Box
\* footprint does not fit on pallet area" exactly when the footprint fits the
\* deck in neither orientation; when it fits, the pattern has K >= 1.
C7_FootprintError ==
  \A i \in Fulfilled :
    Usable(i) =>
      /\ Result(i).error = "Box footprint does not fit on pallet area"
           <=> ~FitsDeck(FirstValid(ArgBoxes(i)), ArgPallet(i))
      /\ NoError(i) =>
           \A p \in 1..Len(Result(i).pallets) : Result(i).pallets[p].boxesPerLayer >= 1

\* a box that fits only when turned, and then fills the deck's depth exactly
C7_Witness ==
  \E i \in Fulfilled :
    LET b == FirstValid(ArgBoxes(i)) IN
    /\ Usable(i) /\ NoError(i)
    /\ b.length > ArgPallet(i).width
    /\ b.width <= ArgPallet(i).width /\ b.length = ArgPallet(i).depth

\* C8 as stated (clearance without tolerance): with a valid envelope, a valid box
\* and a footprint that fits, the error is "No vertical clearance for a single
\* layer" exactly when boxHeight > maxHeight - deckHeight.
C8_NoClearance_AsStated ==
  \A i \in Fulfilled :
    (Usable(i) /\ FitsDeck(FirstValid(ArgBoxes(i)), ArgPallet(i))) =>
      ( Result(i).error = "No vertical clearance for a single layer"
          <=> FirstValid(ArgBoxes(i)).height > Clearance(ArgPallet(i)) )

\* C8 (amended): with a valid envelope, a valid box and a footprint that fits,
\* the error is "No vertical clearance for a single layer" exactly when
\* floor((maxHeight - deckHeight + EPS) / boxHeight) <= 0, that is
\* boxHeight > maxHeight - deckHeight + EPS; a box that neither fits nor has
\* clearance gets the footprint error.
C8_NoClearance ==
  \A i \in Fulfilled :
    Usable(i) =>
      LET b == FirstValid(ArgBoxes(i)) IN
      /\ FitsDeck(b, ArgPallet(i)) =>
           ( Result(i).error = "No vertical clearance for a single layer"
               <=> b.height > Clearance(ArgPallet(i)) + EPS )
      /\ (~FitsDeck(b, ArgPallet(i)) /\ b.height > Clearance(ArgPallet(i)) + EPS) =>
           Result(i).error = "Box footprint does not fit on pallet area"

\* a box within the tolerance above the clearance is stacked, one taller is not
C8_Witness ==
  \E i \in Fulfilled :
    LET b == FirstValid(ArgBoxes(i)) IN
    /\ Usable(i) /\ FitsDeck(b, ArgPallet(i))
    /\ b.height = Clearance(ArgPallet(i)) + EPS + 1
    /\ Result(i).error = "No vertical clearance for a single layer"

InTimers(n) == \E k \in 1..Len(timers) : timers[k] = n

\* what the callback must pass to resolve for the arguments of promise n
Expected(n) ==
  LET c == performCalc(ArgBoxes(n), ArgPallet(n))
  IN IF c.type = "throw" THEN emptyResult("Calculation failed") ELSE c.value

PromiseOK(n) ==
  /\ promises[n].state \in {"pending", "fulfilled"}
  /\ promises[n].state = "pending" => promises[n].resolveCalls = 0 /\ InTimers(n)
  /\ promises[n].state = "fulfilled" =>
       /\ promises[n].resolveCalls = 1
       /\ ~InTimers(n)
       /\ Result(n) = Expected(n)
       /\ Result(n).error = "Calculation failed" => Result(n).pallets = <<>>

\* C9 (the promise): every call's promise is eventually fulfilled, exactly
\* once, and never rejected: with performCalc's result, or with the error
\* result "Calculation failed" when performCalc throws.  The call itself
\* computes nothing: it leaves the promise pending with its callback queued.
C9_ResolvesOnce ==
  /\ \A n \in 1..MaxCalls : [](Len(promises) >= n => <>(n \in Fulfilled))
  /\ [](\A n \in 1..Len(promises) : PromiseOK(n))
  /\ [][Len(promises') > Len(promises) =>
          promises'[Len(promises')].state = "pending"]_vars
  /\ [][\A n \in Fulfilled : promises'[n] = promises[n]]_vars

\* one promise fulfilled with a layout and one with "Calculation failed"
C9_Witness ==
  /\ \E n \in Fulfilled : NoError(n) /\ Len(Result(n).pallets) >= 1
  /\ \E n \in Fulfilled : Result(n).error = "Calculation failed"
  /\ timers = <<>>

Selected(i) ==
  LET b == FirstValid(ArgBoxes(i))
  IN chooseBestLayerPattern(ArgPallet(i).width, ArgPallet(i).depth,
                            Footprint(b.length, b.width, 0),
                            Footprint(b.width, b.length, 90), Q(ArgBoxes(i)))

BlockSum(pattern) ==
  SumSeq([k \in 1..Len(pattern.blocks) |-> pattern.blocks[k].cols * pattern.blocks[k].rows])

\* C11 (pattern feasibility): the pattern chooseBestLayerPattern returns for a
\* deck W x D and a box has usedWidth <= W and usedDepth <= D within EPS, a
\* capacity K equal to the sum over its blocks of cols * rows, and K >= 1; the
\* pallets of the result carry that K.
C11_PatternFeasible ==
  \A i \in Fulfilled :
    (Usable(i) /\ Selected(i) # null) =>
      /\ Selected(i).usedWidth <= ArgPallet(i).width + EPS
      /\ Selected(i).usedDepth <= ArgPallet(i).depth + EPS
      /\ Selected(i).perLayer = BlockSum(Selected(i))
      /\ Selected(i).perLayer >= 1
      /\ NoError(i) =>
           \A p \in 1..Len(Result(i).pallets) :
             Result(i).pallets[p].boxesPerLayer = Selected(i).perLayer

\* a split pattern of two non-empty blocks that spans the deck's width exactly
C11_Witness ==
  \E i \in Fulfilled :
    /\ Usable(i) /\ NoError(i) /\ Selected(i) # null
    /\ Selected(i).kind = "split-x"
    /\ \A k \in 1..2 : Selected(i).blocks[k].cols * Selected(i).blocks[k].rows > 0
    /\ Selected(i).usedWidth = ArgPallet(i).width

\* the cells of one full layer of the selected pattern on the deck of call i
LayerCells(i) ==
  materializeLayerCells(Selected(i), ArgPallet(i).width, ArgPallet(i).depth)

\* the placements of pallet pr on layer index l, in list order
OnLayer(pr, l) == SelectSeq(pr.placements, LAMBDA pl : pl.layer = l)

\* C12 (partial-layer exactness): for the materialized layer of K cells of any
\* selected pattern and any r with 0 < r < K, pickCornerEdgePartialCells returns
\* exactly r cells, each a cell of the layer, no cell twice.
C12_PartialExact ==
  \A i \in Fulfilled :
    (Usable(i) /\ Selected(i) # null) =>
      LET cells == LayerCells(i)
          K == Selected(i).perLayer
      IN /\ Len(cells) = K
         /\ \A m \in 1..K : \A n \in 1..K : m # n => cells[m] # cells[n]
         /\ \A r \in 1..(K - 1) :
              LET picked == pickCornerEdgePartialCells(cells, r)
              IN /\ Len(picked) = r
                 /\ \A a \in 1..Len(picked) : \E n \in 1..K : cells[n] = picked[a]
                 /\ \A a \in 1..Len(picked) : \A b \in 1..Len(picked) :
                      a # b => picked[a] # picked[b]

\* a layer of one row of three or more cells (the front and back corners are the
\* same cells) whose partial top layer holds two boxes
C12_Witness ==
  \E i \in Fulfilled :
    /\ Usable(i) /\ NoError(i) /\ Selected(i) # null
    /\ Selected(i).perLayer >= 3
    /\ \A n \in 1..Len(LayerCells(i)) : LayerCells(i)[n].z = LayerCells(i)[1].z
    /\ \E p \in 1..Len(Result(i).pallets) :
         LET pr == Result(i).pallets[p]
         IN pr.layers = 2 /\ Len(OnLayer(pr, 1)) = 2

\* K, L, P and the targets of call i (a usable call with finite quantities whose
\* footprint fits and whose box has clearance), as the engine derives them
KOf(i) == Selected(i).perLayer
LOf(i) == layersMaxOf(ArgPallet(i), FirstValid(ArgBoxes(i)))
POf(i) == minPalletsOf(Q(ArgBoxes(i)), KOf(i) * LOf(i))
Targets(i) == buildTargetsByFullLayers(Q(ArgBoxes(i)), POf(i), KOf(i), LOf(i))

\* the pallets of the result hold exactly the targets
TargetsPlaced(i) ==
  /\ Len(Result(i).pallets) = Len(Targets(i))
  /\ \A p \in 1..Len(Targets(i)) : Result(i).pallets[p].totalBoxes = Targets(i)[p]

\* C13 as stated (full layers first): no pallet's target has a non-zero remainder
\* modulo K unless every pallet holds L full layers.
C13_FullLayersFirst_AsStated ==
  \A i \in Fulfilled :
    (Usable(i) /\ NoError(i)) =>
      \A p \in 1..Len(Targets(i)) :
        Targets(i)[p] % KOf(i) # 0 =>
          \A n \in 1..Len(Targets(i)) : Targets(i)[n] \div KOf(i) = LOf(i)

\* C13 (full layers first): a pallet's target has a non-zero remainder modulo K
\* only if that pallet holds fewer than L full layers, and then the remainder is
\* Q mod K; when every pallet holds L full layers, every target is a multiple of K.
C13_FullLayersFirst ==
  \A i \in Fulfilled :
    (Usable(i) /\ NoError(i)) =>
      /\ TargetsPlaced(i)
      /\ \A p \in 1..Len(Targets(i)) :
           Targets(i)[p] % KOf(i) # 0 =>
             /\ Targets(i)[p] \div KOf(i) < LOf(i)
             /\ Targets(i)[p] % KOf(i) = Q(ArgBoxes(i)) % KOf(i)
      /\ (\A n \in 1..Len(Targets(i)) : Targets(i)[n] \div KOf(i) = LOf(i)) =>
           \A p \in 1..Len(Targets(i)) : Targets(i)[p] % KOf(i) = 0

\* several pallets, one with a remainder on top of fewer than L full layers and
\* another one with L full layers
C13_Witness ==
  \E i \in Fulfilled :
    /\ Usable(i) /\ NoError(i)
    /\ Len(Result(i).pallets) >= 2
    /\ \E p \in 1..Len(Targets(i)) : Targets(i)[p] % KOf(i) # 0
    /\ \E n \in 1..Len(Targets(i)) : Targets(i)[n] = KOf(i) * LOf(i)
    /\ KOf(i) >= 2 /\ LOf(i) >= 2

\* cell origins: the least and greatest x and z over the cells of a layer
OriginXs(cells) == {cells[n].x : n \in 1..Len(cells)}
OriginZs(cells) == {cells[n].z : n \in 1..Len(cells)}

\* a cell whose origin has extreme x and extreme z among the layer's cells
IsGridCorner(c, cells) ==
  /\ c.x \in {SetMin(OriginXs(cells)), SetMax(OriginXs(cells))}
  /\ c.z \in {SetMin(OriginZs(cells)), SetMax(OriginZs(cells))}

\* squared distance (half units) from the centre of cell c to the front-left
\* corner of the layer's bounding box
ToFrontLeft(c, cells) ==
  LET dx == c.x + c.fp.len - SetMin(OriginXs(cells))
      dz == c.z + c.fp.wid - SetMin(OriginZs(cells))
  IN dx * dx + dz * dz

\* the cells a box placed "at the front-left corner" may stand on: the cell with
\* the least x and the least z if the layer has one, else the cells whose centre
\* is nearest to the front-left corner of the bounding box
FrontLeftCells(cells) ==
  LET N == 1..Len(cells)
      exact == {n \in N : cells[n].x = SetMin(OriginXs(cells))
                          /\ cells[n].z = SetMin(OriginZs(cells))}
  IN IF exact # {} THEN exact
     ELSE {n \in N : \A m \in N : ToFrontLeft(cells[n], cells) <= ToFrontLeft(cells[m], cells)}

\* Q = K + 1 gives one pallet of two layers, K placements on layer 0 and one on layer 1
OneOnTop(i) ==
  /\ Len(Result(i).pallets) = 1
  /\ Result(i).pallets[1].layers = 2
  /\ Len(OnLayer(Result(i).pallets[1], 0)) = KOf(i)
  /\ Len(OnLayer(Result(i).pallets[1], 1)) = 1

\* the top placement stands where the layer-0 placement of cell n stands
TopOver(i, n) ==
  LET pr == Result(i).pallets[1]
      top == OnLayer(pr, 1)[1]
  IN pr.placements[n].layer = 0 /\ pr.placements[n].x = top.x /\ pr.placements[n].z = top.z

\* C14 as stated (Q = K + 1): with L >= 2, one pallet of 2 layers, K placements
\* on layer 0, one on layer 1, and that one coincides with the layer-0 placement
\* of a cell whose origin has extreme x and extreme z among the layer's cells.
C14_OneOnTop_AsStated ==
  \A i \in Fulfilled :
    (Usable(i) /\ NoError(i) /\ LOf(i) >= 2 /\ Q(ArgBoxes(i)) = KOf(i) + 1) =>
      /\ OneOnTop(i)
      /\ \E n \in 1..KOf(i) : IsGridCorner(LayerCells(i)[n], LayerCells(i)) /\ TopOver(i, n)

\* C14 (Q = K + 1): with L >= 2, one pallet of 2 layers, K placements on layer 0,
\* one on layer 1, and that one coincides with the layer-0 placement of the
\* front-left cell: the cell of least x and least z if the layer has one (every
\* grid layer has), else a cell whose centre is nearest to the front-left corner
\* of the layer's bounding box.
C14_OneOnTop ==
  \A i \in Fulfilled :
    (Usable(i) /\ NoError(i) /\ LOf(i) >= 2 /\ Q(ArgBoxes(i)) = KOf(i) + 1) =>
      /\ OneOnTop(i)
      /\ \E n \in FrontLeftCells(LayerCells(i)) : TopOver(i, n)
      /\ Selected(i).kind = "grid" =>
           \E n \in 1..KOf(i) :
             IsGridCorner(LayerCells(i)[n], LayerCells(i)) /\ TopOver(i, n)

\* Q = K + 1 on a split layer that has no cell at its front-left corner
C14_Witness ==
  \E i \in Fulfilled :
    /\ Usable(i) /\ NoError(i) /\ LOf(i) >= 2 /\ Q(ArgBoxes(i)) = KOf(i) + 1
    /\ KOf(i) >= 3
    /\ OneOnTop(i)
    /\ \A n \in FrontLeftCells(LayerCells(i)) :
         ~IsGridCorner(LayerCells(i)[n], LayerCells(i))

Abs(x) == IF x < 0 THEN -x ELSE x

\* the footprint of a placement as it lies on the deck: turned by 90 degrees the
\* box's width runs along x
LenOnDeck(pl) == IF pl.rotation = 90 THEN pl.box.width ELSE pl.box.length
WidOnDeck(pl) == IF pl.rotation = 90 THEN pl.box.length ELSE pl.box.width

\* |x| + len/2 <= W/2 and |z| + wid/2 <= D/2, with x and z in half units
InsideDeck(pl, pallet) ==
  /\ Abs(pl.x) + LenOnDeck(pl) <= pallet.width
  /\ Abs(pl.z) + WidOnDeck(pl) <= pallet.depth

\* C15 (no overhang): every placement of every error-free result has its
\* footprint, centred at (x, z) and turned by its rotation, entirely inside the
\* deck, also when a footprint dimension equals the deck dimension.
C15_NoOverhang ==
  \A i \in Fulfilled :
    (Usable(i) /\ NoError(i)) =>
      \A p \in 1..Len(Result(i).pallets) :
        \A n \in 1..Len(Result(i).pallets[p].placements) :
          InsideDeck(Result(i).pallets[p].placements[n], ArgPallet(i))

\* C15, the part that holds: the footprint lies inside the deck along every
\* axis on which it is shorter than the deck by at least EPS; along an axis on
\* which it is as long as the deck it is centred EPS off the deck's centre.
C15_NoOverhangShorter ==
  \A i \in Fulfilled :
    (Usable(i) /\ NoError(i)) =>
      \A p \in 1..Len(Result(i).pallets) :
        \A n \in 1..Len(Result(i).pallets[p].placements) :
          LET pl == Result(i).pallets[p].placements[n]
          IN /\ IF LenOnDeck(pl) + EPS <= ArgPallet(i).width
                THEN Abs(pl.x) + LenOnDeck(pl) <= ArgPallet(i).width
                ELSE pl.x = 2 * EPS
             /\ IF WidOnDeck(pl) + EPS <= ArgPallet(i).depth
                THEN Abs(pl.z) + WidOnDeck(pl) <= ArgPallet(i).depth
                ELSE pl.z = 2 * EPS

\* a box as long as the deck is wide, placed
C15_Witness ==
  \E i \in Fulfilled :
    /\ Usable(i) /\ NoError(i)
    /\ \E n \in 1..Len(Result(i).pallets[1].placements) :
         LET pl == Result(i).pallets[1].placements[n]
         IN LenOnDeck(pl) = ArgPallet(i).width /\ WidOnDeck(pl) < ArgPallet(i).depth

\* all valid records of the list carry one SKU
SameSku(boxes) ==
  \A m \in ValidRecords(boxes) : \A n \in ValidRecords(boxes) : boxes[m].sku = boxes[n].sku

\* C16 (aggregation): several valid records of one SKU are one box type: every
\* placed box has the first valid record's dimensions, weight, sku and id prefix
\* and the quantity Q; boxDistribution has that SKU as its only key and maps
\* every pallet number 1..P to the pallet's totalBoxes, which sum to Q.
C16_Aggregation ==
  \A i \in Fulfilled :
    (Usable(i) /\ NoError(i) /\ SameSku(ArgBoxes(i))) =>
      LET first == FirstValid(ArgBoxes(i))
          r == Result(i)
          P == 1..Len(r.pallets)
      IN /\ \A p \in P : \A n \in 1..Len(r.pallets[p].placements) :
              LET b == r.pallets[p].placements[n].box
              IN /\ b.length = first.length /\ b.width = first.width
                 /\ b.height = first.height /\ b.weight = first.weight
                 /\ b.sku = first.sku /\ b.id[1] = first.id
                 /\ b.quantity = Q(ArgBoxes(i))
         /\ \A p \in P : r.pallets[p].totalWeight = r.pallets[p].totalBoxes * first.weight
         /\ DOMAIN r.boxDistribution = {first.sku}
         /\ DOMAIN r.boxDistribution[first.sku] = P
         /\ \A p \in P : r.boxDistribution[first.sku][p] = r.pallets[p].totalBoxes
         /\ SumSeq(r.boxDistribution[first.sku]) = Q(ArgBoxes(i))

\* three valid records of one SKU that differ in dimensions and weight, after a
\* missing one, on two pallets or more
C16_Witness ==
  \E i \in Fulfilled :
    /\ Usable(i) /\ NoError(i) /\ SameSku(ArgBoxes(i))
    /\ Cardinality(ValidRecords(ArgBoxes(i))) >= 2
    /\ \E m \in ValidRecords(ArgBoxes(i)) :
         /\ ArgBoxes(i)[m].weight # FirstValid(ArgBoxes(i)).weight
         /\ ArgBoxes(i)[m].length # FirstValid(ArgBoxes(i)).length
    /\ 1 \notin ValidRecords(ArgBoxes(i))
    /\ Len(Result(i).pallets) >= 2

\* the candidates generated for call i, in generation order
Candidates(i) ==
  LET b == FirstValid(ArgBoxes(i))
  IN candidatePatterns(ArgPallet(i).width, ArgPallet(i).depth,
                       Footprint(b.length, b.width, 0), Footprint(b.width, b.length, 90))

\* positions of the candidates that fit the deck and have capacity > 0
Fitting(i) ==
  LET cands == Candidates(i)
  IN {n \in 1..Len(cands) :
        /\ cands[n].perLayer > 0
        /\ cands[n].usedWidth <= ArgPallet(i).width + EPS
        /\ cands[n].usedDepth <= ArgPallet(i).depth + EPS}

\* (K, usedWidth * usedDepth, -|usedWidth - usedDepth|, -(blocks - 1), divisible, -remainder)
RankTuple(c, qty) ==
  <<c.perLayer, c.usedWidth * c.usedDepth, -Abs(c.usedWidth - c.usedDepth),
    -(Len(c.blocks) - 1), IF qty % c.perLayer = 0 THEN 1 ELSE 0, -(qty % c.perLayer)>>

\* s comes before t when compared left to right, greater first
LexGreater(s, t) ==
  \E k \in 1..Len(s) : s[k] > t[k] /\ \A j \in 1..(k - 1) : s[j] = t[j]

\* C17 (lexicographic maximum): the candidates are the 2 grids, one split-x per
\* column count 1..floor(W/len) for both orders and one split-z per row count
\* for both orders; among those that fit with capacity > 0 the returned pattern
\* has a tuple no other one exceeds, is the first in generation order with that
\* tuple, and has the largest K.
C17_LexicographicMax ==
  \A i \in Fulfilled :
    (Usable(i) /\ IntegerQuantities(ArgBoxes(i))) =>
      LET b == FirstValid(ArgBoxes(i))
          W == ArgPallet(i).width
          D == ArgPallet(i).depth
          qty == Q(ArgBoxes(i))
          cands == Candidates(i)
          fit == Fitting(i)
          sel == Selected(i)
          top == {n \in fit :
                    \A m \in fit : ~LexGreater(RankTuple(cands[m], qty), RankTuple(cands[n], qty))}
      IN /\ Len(cands) = 2 + (W \div b.length) + (W \div b.width)
                           + (D \div b.width) + (D \div b.length)
         /\ fit = {} <=> sel = null
         /\ fit # {} =>
              /\ sel = cands[SetMin(top)]
              /\ \A m \in fit : cands[m].perLayer <= sel.perLayer

\* the pattern returned is not the first fitting candidate, and an earlier
\* candidate has the same K but loses on a later component
C17_Witness ==
  \E i \in Fulfilled :
    /\ Usable(i) /\ NoError(i) /\ Selected(i) # null
    /\ Selected(i) # Candidates(i)[SetMin(Fitting(i))]
    /\ \E m \in Fitting(i) :
         /\ Candidates(i)[m].perLayer = Selected(i).perLayer
         /\ LexGreater(RankTuple(Selected(i), Q(ArgBoxes(i))),
                       RankTuple(Candidates(i)[m], Q(ArgBoxes(i))))
         /\ \E n \in Fitting(i) : n > m /\ Candidates(i)[n] = Selected(i)

\* full layers of target t
FullLayersOf(t, K) == t \div K

\* C18 (even spread of full layers): with F = floor(Q / K) and P pallets, pallet
\* number p (from 1) is given floor(F / P) full layers, plus one if p <= F mod P;
\* the full-layer counts of two pallets differ by at most 1, never increase with
\* the pallet number, and sum to F.
C18_EvenSpread ==
  \A i \in Fulfilled :
    (Usable(i) /\ NoError(i)) =>
      LET t == Targets(i)
          K == KOf(i)
          P == Len(t)
          F == Q(ArgBoxes(i)) \div K
      IN /\ TargetsPlaced(i)
         /\ P = POf(i)
         /\ \A p \in 1..P :
              FullLayersOf(t[p], K) = (F \div P) + (IF p <= F % P THEN 1 ELSE 0)
         /\ \A p \in 1..P : \A n \in 1..P :
              /\ Abs(FullLayersOf(t[p], K) - FullLayersOf(t[n], K)) <= 1
              /\ p < n => FullLayersOf(t[p], K) >= FullLayersOf(t[n], K)
         /\ SumSeq([p \in 1..P |-> FullLayersOf(t[p], K)]) = F

\* three pallets or more, some of them with one full layer more than the
\* others, and a remainder
C18_Witness ==
  \E i \in Fulfilled :
    /\ Usable(i) /\ NoError(i)
    /\ Len(Result(i).pallets) >= 3
    /\ KOf(i) >= 2
    /\ (Q(ArgBoxes(i)) \div KOf(i)) % Len(Result(i).pallets) >= 2
    /\ Q(ArgBoxes(i)) % KOf(i) # 0
    /\ FullLayersOf(Result(i).pallets[1].totalBoxes, KOf(i))
         > FullLayersOf(Result(i).pallets[Len(Result(i).pallets)].totalBoxes, KOf(i))

\* C19 (single remainder pocket): when Q mod K > 0 the whole remainder is on
\* exactly one pallet, the highest-numbered one whose full-layer count is below
\* L, so at most one pallet has a target that is not a multiple of K; when
\* Q mod K = 0 every target is a multiple of K.
C19_SingleRemainder ==
  \A i \in Fulfilled :
    (Usable(i) /\ NoError(i)) =>
      LET t == Targets(i)
          K == KOf(i)
          P == 1..Len(t)
          rem == Q(ArgBoxes(i)) % K
          partial == {p \in P : t[p] % K # 0}
          below == {p \in P : FullLayersOf(t[p], K) < LOf(i)}
      IN /\ TargetsPlaced(i)
         /\ Cardinality(partial) <= 1
         /\ rem = 0 => partial = {}
         /\ rem > 0 => /\ below # {}
                       /\ partial = {SetMax(below)}
                       /\ t[SetMax(below)] % K = rem
         /\ \A p \in P :
              Result(i).pallets[p].layers
                = FullLayersOf(t[p], K) + (IF p \in partial THEN 1 ELSE 0)

\* several pallets, all but the last at L full layers, the last one with the
\* remainder on top of at least one full layer
C19_Witness ==
  \E i \in Fulfilled :
    /\ Usable(i) /\ NoError(i)
    /\ Len(Result(i).pallets) >= 3
    /\ Q(ArgBoxes(i)) % KOf(i) >= 2
    /\ LET last == Result(i).pallets[Len(Result(i).pallets)]
       IN /\ last.totalBoxes % KOf(i) = Q(ArgBoxes(i)) % KOf(i)
          /\ last.totalBoxes > KOf(i)
    /\ \A p \in 1..(Len(Result(i).pallets) - 1) :
         Result(i).pallets[p].totalBoxes % KOf(i) = 0

\* C20 (layer structure of a pallet): a pallet with target t has t placements on
\* the layers 0..layers-1, none of them empty, in non-decreasing layer order in
\* the list; each of the layers 0..floor(t/K)-1 holds exactly K placements, one
\* more layer holding t mod K placements exists iff t mod K > 0, and
\* layers = ceil(t/K).
C20_LayerStructure ==
  \A i \in Fulfilled :
    (Usable(i) /\ NoError(i)) =>
      LET t == Targets(i)
          K == KOf(i)
      IN /\ TargetsPlaced(i)
         /\ \A p \in 1..Len(Result(i).pallets) :
              LET pr == Result(i).pallets[p]
                  pls == pr.placements
                  full == FullLayersOf(t[p], K)
              IN /\ Len(pls) = t[p]
                 /\ pr.layers = (t[p] + K - 1) \div K
                 /\ \A j \in 1..Len(pls) : pls[j].layer \in 0..(pr.layers - 1)
                 /\ \A l \in 0..(pr.layers - 1) : Len(OnLayer(pr, l)) > 0
                 /\ \A j \in 1..(Len(pls) - 1) : pls[j].layer <= pls[j + 1].layer
                 /\ \A l \in 0..(full - 1) : Len(OnLayer(pr, l)) = K
                 /\ (t[p] % K > 0) <=> (pr.layers = full + 1)
                 /\ Len(OnLayer(pr, full)) = t[p] % K

\* the quantity is exactly one layer of several boxes: one pallet, one layer of
\* K placements, nothing above it
C20_Witness ==
  \E i \in Fulfilled :
    /\ Usable(i) /\ NoError(i)
    /\ KOf(i) >= 2
    /\ Q(ArgBoxes(i)) = KOf(i)
    /\ Len(Result(i).pallets) = 1
    /\ Result(i).pallets[1].layers = 1
    /\ Result(i).pallets[1].totalBoxes = KOf(i)
    /\ Len(OnLayer(Result(i).pallets[1], 0)) = KOf(i)
    /\ OnLayer(Result(i).pallets[1], 1) = <<>>

\* the margins (half units) between the bounding box of the cells and the four
\* sides of the deck
Margins(cells, pallet) ==
  LET bd == cellBounds(cells)
  IN [left |-> bd.minX, right |-> 2 * pallet.width - bd.maxX,
      front |-> bd.minZ, back |-> 2 * pallet.depth - bd.maxZ]

CentredOnDeck(cells, pallet) ==
  /\ Margins(cells, pallet).left = Margins(cells, pallet).right
  /\ Margins(cells, pallet).front = Margins(cells, pallet).back

\* a block of the pattern has no cell (zero rows or zero columns)
HasEmptyBlock(pattern) ==
  \E k \in 1..Len(pattern.blocks) : pattern.blocks[k].cols * pattern.blocks[k].rows = 0

\* C21 (centering): the bounding box of the materialized cells of a full layer
\* of the selected pattern is centred on the deck: left margin = right margin
\* and front margin = back margin, also for a selected split pattern one of
\* whose blocks has zero rows or zero columns.
C21_Centred ==
  \A i \in Fulfilled :
    (Usable(i) /\ Selected(i) # null) => CentredOnDeck(LayerCells(i), ArgPallet(i))

\* C21, for the patterns all of whose blocks have cells: the bounding box of
\* the cells of a full layer is centred on the deck.
C21_CentredFullBlocks ==
  \A i \in Fulfilled :
    (Usable(i) /\ Selected(i) # null /\ ~HasEmptyBlock(Selected(i))) =>
      CentredOnDeck(LayerCells(i), ArgPallet(i))

\* a split pattern of two non-empty blocks that leaves a margin in front of and
\* behind the cells
C21_Witness ==
  \E i \in Fulfilled :
    /\ Usable(i) /\ NoError(i) /\ Selected(i) # null
    /\ Selected(i).kind # "grid" /\ ~HasEmptyBlock(Selected(i))
    /\ Margins(LayerCells(i), ArgPallet(i)).front > 0
    /\ CentredOnDeck(LayerCells(i), ArgPallet(i))

\* the cells whose origin is at corner k of the cell origins; k = 1..4 is
\* front-left, back-left, front-right, back-right
CornerCells(k, cells) ==
  {c \in {cells[n] : n \in 1..Len(cells)} :
     /\ c.x = (IF k <= 2 THEN SetMin(OriginXs(cells)) ELSE SetMax(OriginXs(cells)))
     /\ c.z = (IF k \in {1, 3} THEN SetMin(OriginZs(cells)) ELSE SetMax(OriginZs(cells)))}

\* squared distance (half units) from the centre of cell c to corner k of the
\* bounding box of the cells
ToCorner(k, c, cells) ==
  LET N == 1..Len(cells)
      px == IF k <= 2 THEN SetMin(OriginXs(cells))
            ELSE SetMax({cells[n].x + 2 * cells[n].fp.len : n \in N})
      pz == IF k \in {1, 3} THEN SetMin(OriginZs(cells))
            ELSE SetMax({cells[n].z + 2 * cells[n].fp.wid : n \in N})
      dx == c.x + c.fp.len - px
      dz == c.z + c.fp.wid - pz
  IN dx * dx + dz * dz

\* the k-th pick is the pick of corner k: the corner's own cell when the layer
\* has one that no earlier pick took, else a cell no earlier pick took that is
\* nearest to the corner of the bounding box
IsCornerPick(k, picked, cells) ==
  LET earlier == {picked[j] : j \in 1..(k - 1)}
      free == {cells[n] : n \in 1..Len(cells)} \ earlier
      own == CornerCells(k, cells) \ earlier
  IN /\ picked[k] \in free
     /\ own # {} => picked[k] \in own
     /\ own = {} => \A c \in free : ToCorner(k, picked[k], cells) <= ToCorner(k, c, cells)

\* C22 (corner-first picking): for the cells of a selected layer and 0 < r < K,
\* the first min(4, r) cells pickCornerEdgePartialCells returns are the picks
\* of the corners front-left, back-left, front-right, back-right in this
\* order; so for r >= 4 every corner cell the layer has is in the result, and
\* for r = 1 the result is the front-left corner cell when the layer has one.
C22_CornersFirst ==
  \A i \in Fulfilled :
    (Usable(i) /\ Selected(i) # null) =>
      LET cells == LayerCells(i)
      IN \A r \in 1..(Len(cells) - 1) :
           LET picked == pickCornerEdgePartialCells(cells, r)
           IN /\ Len(picked) >= Min(4, r)
              /\ \A k \in 1..Min(4, r) : IsCornerPick(k, picked, cells)
              /\ r >= 4 => \A k \in 1..4 :
                   CornerCells(k, cells) \subseteq {picked[j] : j \in 1..4}
              /\ (r = 1 /\ CornerCells(1, cells) # {}) =>
                   {picked[1]} = CornerCells(1, cells)

\* a pallet whose partial top layer holds four boxes or more of a layer that
\* has a corner without a cell of its own, the four first of them standing on
\* four different cells
C22_Witness ==
  \E i \in Fulfilled :
    /\ Usable(i) /\ NoError(i) /\ Selected(i) # null
    /\ \E k \in 1..4 : CornerCells(k, LayerCells(i)) = {}
    /\ \E p \in 1..Len(Result(i).pallets) :
         LET pr == Result(i).pallets[p]
             r == pr.totalBoxes % KOf(i)
             picked == pickCornerEdgePartialCells(LayerCells(i), r)
         IN /\ r >= 4
            /\ Len(OnLayer(pr, pr.layers - 1)) = r
            /\ Cardinality({picked[j] : j \in 1..4}) = 4

\* distance (half units) from the centre of cell c to the nearest side of the
\* bounding box of the cells
EdgeDistance(c, cells) ==
  LET N == 1..Len(cells)
      cx == c.x + c.fp.len
      cz == c.z + c.fp.wid
  IN SetMin({cx - SetMin(OriginXs(cells)),
             SetMax({cells[n].x + 2 * cells[n].fp.len : n \in N}) - cx,
             cz - SetMin(OriginZs(cells)),
             SetMax({cells[n].z + 2 * cells[n].fp.wid : n \in N}) - cz})

\* the position of cell c in the layer's cell list
IndexOf(c, cells) == CHOOSE n \in 1..Len(cells) : cells[n] = c

\* cell c comes before cell d in the edge phase: smaller edge score, or the
\* same score and earlier in the list
EdgeBefore(c, d, cells) ==
  \/ EdgeDistance(c, cells) < EdgeDistance(d, cells)
  \/ /\ EdgeDistance(c, cells) = EdgeDistance(d, cells)
     /\ IndexOf(c, cells) < IndexOf(d, cells)

\* C23 (edge phase ordering): for r > 4 the cells returned after the four corner
\* picks come in non-decreasing order of edge score, ties in list order, and
\* no cell left unpicked has a strictly smaller edge score than one of them.
C23_EdgeOrder ==
  \A i \in Fulfilled :
    (Usable(i) /\ Selected(i) # null) =>
      LET cells == LayerCells(i)
      IN \A r \in 5..(Len(cells) - 1) :
           LET picked == pickCornerEdgePartialCells(cells, r)
               left == {cells[n] : n \in 1..Len(cells)} \ {picked[j] : j \in 1..Len(picked)}
           IN /\ Len(picked) = r
              /\ \A j \in 5..(r - 1) : EdgeBefore(picked[j], picked[j + 1], cells)
              /\ \A j \in 5..r : \A c \in left :
                   /\ EdgeDistance(c, cells) >= EdgeDistance(picked[j], cells)
                   /\ EdgeBefore(picked[j], c, cells)

\* a pallet whose partial top layer holds six boxes or more, two of the edge
\* picks having the same score, while a cell farther from the sides is left
C23_Witness ==
  \E i \in Fulfilled :
    /\ Usable(i) /\ NoError(i) /\ Selected(i) # null
    /\ \E p \in 1..Len(Result(i).pallets) :
         LET pr == Result(i).pallets[p]
             cells == LayerCells(i)
             r == pr.totalBoxes % KOf(i)
             picked == pickCornerEdgePartialCells(cells, r)
         IN /\ r >= 6
            /\ Len(OnLayer(pr, pr.layers - 1)) = r
            /\ EdgeDistance(picked[5], cells) = EdgeDistance(picked[6], cells)
            /\ \E n \in 1..Len(cells) :
                 /\ \A j \in 1..r : picked[j] # cells[n]
                 /\ EdgeDistance(cells[n], cells) > EdgeDistance(picked[r], cells)

\* where a placement stands and how it is turned
Spot(pl) == [x |-> pl.x, z |-> pl.z, rotation |-> pl.rotation]

\* the spots of one full layer of the selected pattern on the deck of call i
FullLayerSpots(i) ==
  LET cells == LayerCells(i)
  IN {Spot(placementOf(cells[n], FirstValid(ArgBoxes(i)), ArgPallet(i), "id", 0)) :
        n \in 1..Len(cells)}

\* the placements of the partial top layer of pallet pr (none if it has none)
PartialTop(pr, K) ==
  IF pr.totalBoxes % K = 0 THEN <<>> ELSE OnLayer(pr, pr.layers - 1)

\* C24 (no recentring of the partial layer): on every pallet with a partial top
\* layer each placement of that layer has the (x, z, rotation) of a placement
\* of a full layer of the same pattern - of every full layer the result holds -
\* and no two placements of the partial layer stand at the same position.
C24_NoRecentring ==
  \A i \in Fulfilled :
    (Usable(i) /\ NoError(i)) =>
      LET spots == FullLayerSpots(i)
          K == KOf(i)
      IN \A p \in 1..Len(Result(i).pallets) :
           LET pr == Result(i).pallets[p]
               top == PartialTop(pr, K)
           IN /\ \A a \in 1..Len(top) : Spot(top[a]) \in spots
              /\ \A a \in 1..Len(top) : \A b \in 1..Len(top) :
                   a # b => <<top[a].x, top[a].z>> # <<top[b].x, top[b].z>>
              /\ \A q \in 1..Len(Result(i).pallets) :
                   \A l \in 0..((Result(i).pallets[q].totalBoxes \div K) - 1) :
                     LET under == OnLayer(Result(i).pallets[q], l)
                     IN /\ {Spot(under[n]) : n \in 1..Len(under)} = spots
                        /\ \A a \in 1..Len(top) :
                             \E n \in 1..Len(under) : Spot(under[n]) = Spot(top[a])

\* a pallet with a full layer and a partial top layer of two boxes or more
\* that all stand left of the deck's centre
C24_Witness ==
  \E i \in Fulfilled :
    /\ Usable(i) /\ NoError(i)
    /\ \E p \in 1..Len(Result(i).pallets) :
         LET pr == Result(i).pallets[p]
             top == PartialTop(pr, KOf(i))
         IN /\ pr.layers >= 2
            /\ Len(top) >= 2
            /\ \A a \in 1..Len(top) : top[a].x < 0
            /\ \E n \in 1..Len(OnLayer(pr, 0)) : OnLayer(pr, 0)[n].x > 0

\* the inputs of the page as the engine takes them
CurrentArgs == [boxes |-> page.boxes, pallet |-> page.palletConfig]
FormValid == isFormValid(page.boxes, page.palletConfig, page.palletWeight)

\* the calls of the engine the auto path has made
AutoCalls == {k \in 1..Len(page.modes) : page.modes[k] = "auto"}

\* at most one timer is pending, and it was set for the present inputs, which
\* are valid: every timer set before the last change has been cleared
PendingIsCurrent ==
  /\ Cardinality(autoTimers) <= 1
  /\ \A t \in autoTimers : t.args = CurrentArgs /\ FormValid

\* a step in which the auto path calls the engine calls it with the inputs of
\* the page, which are valid, and no earlier auto call was made since they changed
AutoCallIsCurrent ==
  (Len(page'.modes) = Len(page.modes) + 1 /\ page'.modes[Len(page'.modes)] = "auto") =>
    /\ promises'[Len(promises')].args = CurrentArgs
    /\ FormValid
    /\ page' .changes = page.changes
    /\ \A k \in AutoCalls : page.epochs[k] < page.changes

\* the auto path has called the engine with the present inputs since they last changed
AutoCallMade ==
  \E k \in AutoCalls : page.epochs[k] = page.changes /\ promises[k].args = CurrentArgs

\* C25 (debounced auto-recalculation): at most one auto-recalc timer is pending
\* at any time; a change of the input key or of the validity clears the pending
\* timer, so the auto path calls the engine only with inputs that are still the
\* page's inputs and valid when the timer fires, once per change; and once the
\* inputs stop changing while valid, the engine is eventually called by the
\* auto path with the latest inputs.
C25_Debounce ==
  /\ []PendingIsCurrent
  /\ [][AutoCallIsCurrent]_vars
  /\ <>[](FormValid => AutoCallMade)

\* two timers were cleared by later changes before the third one fired with
\* the inputs of the page
C25_Witness ==
  /\ page.isMounted
  /\ page.nextTimerId = 4
  /\ autoTimers = {}
  /\ Cardinality(AutoCalls) = 1
  /\ FormValid /\ AutoCallMade

\* a step that stores the result of a call of the engine
StoresResult == page'.calcFrom # 0 /\ page'.calcFrom # page.calcFrom

\* no call of the engine is in flight
NoneInFlight == timers = <<>>

\* C30 (no stale result is stored): a result is stored only while the inputs are
\* still those of its call and the form is valid - after the form has become
\* invalid or the inputs have changed, the result of a call started before is
\* not written - and whenever the form is invalid and no call is in flight the
\* stored calculation is null.
C30_NoStaleResult ==
  /\ [][StoresResult =>
          (promises[page'.calcFrom].args = CurrentArgs /\ FormValid)]_vars
  /\ []((~FormValid /\ NoneInFlight) => page.calculation = null)

\* C30, what the page does guarantee: results are stored in the order of the
\* calls, each as its promise is fulfilled, and once the form is valid, no timer
\* is pending and no call is in flight, the stored calculation is the result of
\* the last call, which was made with the page's present inputs.
C30_LastWriteWins ==
  /\ [][StoresResult =>
          /\ page'.calcFrom > page.calcFrom
          /\ page'.calculation = promises'[page'.calcFrom].value
          /\ promises'[page'.calcFrom].state = "fulfilled"]_vars
  /\ []((FormValid /\ NoneInFlight /\ autoTimers = {}) =>
          /\ page.calcFrom = Len(promises)
          /\ page.calcFrom > 0
          /\ promises[page.calcFrom].args = CurrentArgs
          /\ page.calculation = promises[page.calcFrom].value)

\* the form is invalid, nothing is pending or in flight, and the page shows the
\* result of a call made for the inputs it had before
C30_StaleShown ==
  /\ page.isMounted
  /\ ~FormValid /\ NoneInFlight /\ autoTimers = {}
  /\ page.calculation # null
  /\ page.calcFrom > 0
  /\ promises[page.calcFrom].args # CurrentArgs

\* the result of a call for earlier inputs was stored after the inputs had
\* changed, and the result of the call for the present inputs has replaced it
C30_Witness ==
  /\ page.isMounted
  /\ FormValid /\ NoneInFlight /\ autoTimers = {}
  /\ Len(promises) = 2
  /\ page.epochs[1] = 1 /\ page.epochs[2] = 2
  /\ promises[1].args # promises[2].args
  /\ page.calcFrom = 2

\* ceil(a / b) for positive b
CeilOf(a, b) == (a + b - 1) \div b

\* the targets with no clamp, no second scan and no reconciliation: the full
\* layers spread evenly, first pallets first, and the remainder on the final pallet
PlainTargets(total, K, P) ==
  LET F == total \div K
  IN [p \in 1..P |-> ((F \div P) + (IF p <= F % P THEN 1 ELSE 0)) * K
                      + (IF p = P THEN total % K ELSE 0)]

\* C26 (the defensive paths of buildTargetsByFullLayers are idle): called with
\* P = max(1, ceil(Q / (K * L))) pallets, K >= 1 and L >= 1, no layer count
\* exceeds L before the clamp, a non-zero remainder finds the final pallet
\* below L, the targets are the plain ones - whose sum is Q, so that nothing is
\* left to spread back or to reconcile - and every target is <= K * L, so the
\* orchestrator's min(target, K * L) drops no box.
C26_DefensivePathsIdle ==
  \A i \in Fulfilled :
    (Usable(i) /\ NoError(i)) =>
      LET total == Q(ArgBoxes(i))
          K == KOf(i)
          L == LOf(i)
          P == Max(1, CeilOf(total, K * L))
          F == total \div K
          plain == PlainTargets(total, K, P)
      IN /\ K >= 1 /\ L >= 1
         /\ \A p \in 1..P : (F \div P) + (IF p <= F % P THEN 1 ELSE 0) <= L
         /\ total % K > 0 => F \div P < L
         /\ buildTargetsByFullLayers(total, P, K, L) = plain
         /\ SumSeq(plain) = total
         /\ \A p \in 1..P : plain[p] <= K * L
         /\ Len(Result(i).pallets) = P
         /\ \A p \in 1..P : Result(i).pallets[p].totalBoxes = plain[p]
         /\ Result(i).totalBoxes = total

\* three pallets, the first ones at L full layers, the final one a single box
\* short of its capacity
C26_Witness ==
  \E i \in Fulfilled :
    /\ Usable(i) /\ NoError(i)
    /\ KOf(i) >= 2 /\ LOf(i) >= 2
    /\ Len(Result(i).pallets) = 3
    /\ Result(i).pallets[1].totalBoxes = KOf(i) * LOf(i)
    /\ Result(i).pallets[2].totalBoxes = KOf(i) * LOf(i)
    /\ Result(i).pallets[3].totalBoxes = KOf(i) * LOf(i) - 1

\* C27 (no empty pallet): every one of the max(1, ceil(Q / (K * L))) pallets of
\* an error-free result has totalBoxes >= 1 and layers >= 1, also when L = 1
\* and the last pallet is given no full layer.
C27_NoEmptyPallet ==
  \A i \in Fulfilled :
    (Usable(i) /\ NoError(i)) =>
      /\ Q(ArgBoxes(i)) >= 1 /\ KOf(i) >= 1 /\ LOf(i) >= 1
      /\ Result(i).totalPallets = Max(1, CeilOf(Q(ArgBoxes(i)), KOf(i) * LOf(i)))
      /\ Len(Result(i).pallets) = Result(i).totalPallets
      /\ \A p \in 1..Len(Result(i).pallets) :
           /\ Result(i).pallets[p].totalBoxes >= 1
           /\ Result(i).pallets[p].layers >= 1
           /\ Result(i).pallets[p].placements # <<>>

\* L = 1 and several pallets, the last of which holds a partial layer only
C27_Witness ==
  \E i \in Fulfilled :
    /\ Usable(i) /\ NoError(i)
    /\ LOf(i) = 1 /\ KOf(i) >= 2
    /\ Len(Result(i).pallets) >= 3
    /\ LET last == Result(i).pallets[Len(Result(i).pallets)]
       IN last.totalBoxes < KOf(i) /\ last.totalBoxes >= 1 /\ last.layers = 1

\* C28 (the pattern does not depend on the quantity): for the deck and the box
\* of a call, chooseBestLayerPattern returns the same pattern for every total
\* quantity >= 1 (an infinite one included), and two fitting candidates whose
\* tuples agree on the first four components agree on the last two, for every
\* quantity.
C28_QuantityIndependent ==
  \A i \in Fulfilled :
    (Usable(i) /\ IntegerQuantities(ArgBoxes(i))) =>
      LET b == FirstValid(ArgBoxes(i))
          sel == Selected(i)
          cands == Candidates(i)
          fit == Fitting(i)
      IN /\ \A q \in (1..MaxLayerQty) \cup {Infinity} :
              chooseBestLayerPattern(ArgPallet(i).width, ArgPallet(i).depth,
                                     Footprint(b.length, b.width, 0),
                                     Footprint(b.width, b.length, 90), q) = sel
         /\ \A q \in 1..MaxLayerQty : \A m \in fit : \A n \in fit :
              LET s == RankTuple(cands[m], q)
                  t == RankTuple(cands[n], q)
              IN (\A k \in 1..4 : s[k] = t[k]) => (s[5] = t[5] /\ s[6] = t[6])

\* the quantity is not a multiple of the selected K but is a multiple of the
\* smaller capacity of another fitting candidate, and two fitting candidates
\* agree on the first four components
C28_Witness ==
  \E i \in Fulfilled :
    /\ Usable(i) /\ NoError(i) /\ Selected(i) # null
    /\ Q(ArgBoxes(i)) % Selected(i).perLayer # 0
    /\ \E m \in Fitting(i) :
         /\ Candidates(i)[m].perLayer >= 2
         /\ Candidates(i)[m].perLayer < Selected(i).perLayer
         /\ Q(ArgBoxes(i)) % Candidates(i)[m].perLayer = 0
    /\ \E m \in Fitting(i) : \E n \in Fitting(i) :
         /\ m # n
         /\ \A k \in 1..4 : RankTuple(Candidates(i)[m], 1)[k] = RankTuple(Candidates(i)[n], 1)[k]

\* the rectangles of two cells have disjoint interiors (half units)
Disjoint(c, d) ==
  \/ c.x + 2 * c.fp.len <= d.x \/ d.x + 2 * d.fp.len <= c.x
  \/ c.z + 2 * c.fp.wid <= d.z \/ d.z + 2 * d.fp.wid <= c.z

\* the rectangle of a cell lies in [0, W] x [0, D] (half units)
CellOnDeck(c, pallet) ==
  /\ 0 <= c.x /\ c.x + 2 * c.fp.len <= 2 * pallet.width
  /\ 0 <= c.z /\ c.z + 2 * c.fp.wid <= 2 * pallet.depth

\* in a split whose two blocks have cells, the second block starts where the
\* first one ends, along x for split-x and along z for split-z
Abuts(pattern, cells) ==
  LET n1 == pattern.blocks[1].cols * pattern.blocks[1].rows
      first == {cells[n] : n \in 1..n1}
      second == {cells[n] : n \in (n1 + 1)..Len(cells)}
  IN (first # {} /\ second # {}) =>
       IF pattern.kind = "split-x"
       THEN SetMax({c.x + 2 * c.fp.len : c \in first}) = SetMin({c.x : c \in second})
       ELSE SetMax({c.z + 2 * c.fp.wid : c \in first}) = SetMin({c.z : c \in second})

\* C29 (materialized cells of every fitting candidate): for every candidate
\* that passes the fit filter - grid, split-x or split-z, whatever its blocks -
\* materializeLayerCells gives exactly K cells, pairwise with disjoint
\* interiors, the second block of a split abutting the first, each cell inside
\* the deck rectangle [0, W] x [0, D].
C29_CellsOfCandidates ==
  \A i \in Fulfilled :
    Usable(i) =>
      LET cands == Candidates(i)
      IN \A n \in Fitting(i) :
           LET cells == materializeLayerCells(cands[n], ArgPallet(i).width, ArgPallet(i).depth)
               N == 1..Len(cells)
           IN /\ Len(cells) = cands[n].perLayer
              /\ \A a \in N : \A b \in N : a # b => Disjoint(cells[a], cells[b])
              /\ \A a \in N : CellOnDeck(cells[a], ArgPallet(i))
              /\ cands[n].kind # "grid" => Abuts(cands[n], cells)

\* a fitting split-z candidate that is not the selected pattern, with cells of
\* both orientations in blocks of different widths
C29_Witness ==
  \E i \in Fulfilled :
    /\ Usable(i) /\ NoError(i)
    /\ \E n \in Fitting(i) :
         LET c == Candidates(i)[n]
         IN /\ c.kind = "split-z" /\ c # Selected(i)
            /\ c.blocks[1].cols * c.blocks[1].rows > 0
            /\ c.blocks[2].cols * c.blocks[2].rows > 0
            /\ c.blocks[1].cols * c.blocks[1].fp.len # c.blocks[2].cols * c.blocks[2].fp.len
            /\ Len(materializeLayerCells(c, ArgPallet(i).width, ArgPallet(i).depth)) >= 4

====
